---------------------------- MODULE Spec2Model ----------------------------
(***************************************************************************)
(* Model of the NeighborList calculator of rascaline                       *)
(* (rascaline/src/calculators/neighbor_list.rs).                           *)
(*                                                                         *)
(* A batch of systems is the input.  Every system reports its species and  *)
(* the pairs found by compute_neighbors(cutoff).  A calculator goes        *)
(* through keys() -> samples() -> allocation (with                         *)
(* positions_gradient_samples() when gradients are requested) ->           *)
(* compute().  Atom, system, pair and row indexes stored in labels are     *)
(* 0-based as in the code; TLA+ sequences are 1-based, so the element of   *)
(* index n of a Rust slice is element n + 1 of the sequence modelling it.  *)
(* f64 values are modelled by integers: the only arithmetic of the         *)
(* calculator is the negation of a pair vector, which is exact.            *)
(***************************************************************************)
EXTENDS Integers, Sequences, FiniteSets, TLC

VARIABLES
    systems,            \* the batch: sequence of [species, pairs]
    cutoff,             \* NeighborList.cutoff
    full_neighbor_list, \* NeighborList.full_neighbor_list
    pc,                 \* stage of the invocation of the calculator
    panic,              \* reason of the abort, "none" otherwise
    error,              \* the Error returned to the caller, "none" otherwise
    failing,            \* number of the system whose neighbor list fails, 0: none
    keys,               \* Labels [species_first_atom, species_second_atom]
    samples,            \* one Labels per block
    values,             \* one array per block, [sample][component]
    gradient,           \* [present, samples, data] of the "positions" gradient
    written,            \* the array entries compute() assigned, in order
    previous,           \* the descriptor of the previous invocation, if any
    foreign,            \* a rascal_system_t and the outcome of the last call on it
    builder,            \* a samples builder, its request and its result
    descriptor          \* a Descriptor: values, environments, features, gradients

vars == <<systems, cutoff, full_neighbor_list, pc, panic, error, failing, keys,
          samples, values, gradient, written, previous, foreign, builder,
          descriptor>>

\* the state of the other components, which a calculator never touches
besides_calculator == <<foreign, builder, descriptor>>

----------------------------------------------------------------------------
(* Bounds of the model *)

\* largest number of pairs reported by the systems of a batch
MaxPairs == 2

\* largest number of rows of a request of gradient samples
MaxRequested == 2

\* largest number of environments of a descriptor
MaxEnvironments == 3

\* number of systems of a batch
BatchSizes == {1, 2}
\* atom indexes of a system
Atoms == {0, 1}
\* species codes (water of the tests: O = -42, H = 1)
Species == {-42, 1}
\* pair vectors (non zero: self pairs at distance zero are never reported)
Vectors == {<<0, 1, -2>>, <<3, 0, 1>>}
\* f64 cutoffs: a finite number, NaN or +infinity
Finite(x) == [class |-> "finite", value |-> x]
NaN == [class |-> "nan", value |-> 0]
Infinity == [class |-> "infinite", value |-> 1]
\* cutoffs: one the assert of keys()/samples() rejects, one it accepts
Cutoffs == {Finite(0), Finite(2)}
\* cutoffs of every class: negative, zero, positive, NaN, +infinity
AllCutoffs == Cutoffs \cup {Finite(0 - 1), NaN, Infinity}

----------------------------------------------------------------------------
(* Generic helpers *)

RECURSIVE ConcatAll(_)
ConcatAll(ss) ==
    IF Len(ss) = 0 THEN <<>> ELSE Head(ss) \o ConcatAll(Tail(ss))

Range(s) == {s[n] : n \in 1 .. Len(s)}

\* -vector on a Vector3D
Neg(v) == [d \in 1 .. 3 |-> 0 - v[d]]

\* Ord of (i32, i32): lexicographic
TupleLess(a, b) == a[1] < b[1] \/ (a[1] = b[1] /\ a[2] < b[2])

\* mutant: iteration over a HashSet, in the order of the hasher of the set,
\* which is not the same in a second invocation
RECURSIVE BTreeSetIter_hashed(_)
BTreeSetIter_hashed(S) ==
    IF S = {} THEN <<>>
    ELSE LET next == CHOOSE a \in S : \A b \in S \ {a} :
                        IF previous.present THEN TupleLess(b, a)
                        ELSE TupleLess(a, b)
         IN <<next>> \o BTreeSetIter_hashed(S \ {next})

\* iteration over a BTreeSet<(i32, i32)>: ascending order
RECURSIVE BTreeSetIter(_)
BTreeSetIter(S) ==
    IF S = {} THEN <<>>
    ELSE LET min == CHOOSE a \in S : \A b \in S \ {a} : TupleLess(a, b)
         IN <<min>> \o BTreeSetIter(S \ {min})

----------------------------------------------------------------------------
(* Labels *)

\* LabelsBuilder: add() appends the row; a row already present is an error
LabelsHasDuplicate(rows) ==
    \E n, m \in 1 .. Len(rows) : n /= m /\ rows[n] = rows[m]

\* Labels::position: index (1-based here) of the row, 0 for None
LabelsPosition(rows, row) ==
    IF \E n \in 1 .. Len(rows) : rows[n] = row
    THEN CHOOSE n \in 1 .. Len(rows) :
            rows[n] = row /\ \A m \in 1 .. (n - 1) : rows[m] /= row
    ELSE 0

----------------------------------------------------------------------------
(* Systems *)

\* species[atom] for a 0-based atom index
SpeciesOf(system, atom) == system.species[atom + 1]

\* mutant: equal species count as inverted
sort_pair_strict(i, j) ==
    IF i < j THEN <<<<i, j>>, FALSE>> ELSE <<<<j, i>>, TRUE>>

\* Sort a pair and return true if the pair was inverted
sort_pair(i, j) ==
    IF i <= j THEN <<<<i, j>>, FALSE>> ELSE <<<<j, i>>, TRUE>>

\* the <<system, pair>> positions of a batch, in iteration order
PairPositions(batch) ==
    ConcatAll([s \in 1 .. Len(batch) |->
                  [k \in 1 .. Len(batch[s].pairs) |-> <<s, k>>]])


----------------------------------------------------------------------------
(* HalfNeighborList: only one entry per pair, species_i <= species_j *)

\* mutant: the species of a pair are inserted as reported, not sorted
HalfNeighborList_keys_unsorted(batch) ==
    BTreeSetIter({<<SpeciesOf(batch[p[1]], batch[p[1]].pairs[p[2]].first),
                    SpeciesOf(batch[p[1]], batch[p[1]].pairs[p[2]].second)>> :
                     p \in Range(PairPositions(batch))})

HalfNeighborList_keys(batch) ==
    LET all_species_pairs ==
            {sort_pair(SpeciesOf(batch[p[1]], batch[p[1]].pairs[p[2]].first),
                       SpeciesOf(batch[p[1]], batch[p[1]].pairs[p[2]].second))[1] :
                p \in Range(PairPositions(batch))}
    IN BTreeSetIter(all_species_pairs)

\* mutant: the atoms of an inverted pair are not swapped
HalfNeighborList_samples_block_noswap(key, batch) ==
    LET positions == PairPositions(batch) IN
    ConcatAll([p \in 1 .. Len(positions) |->
        LET system_i == positions[p][1]
            pair_id == positions[p][2]
            system == batch[system_i]
            pair == system.pairs[pair_id]
            sorted == sort_pair(SpeciesOf(system, pair.first),
                                SpeciesOf(system, pair.second))
        IN IF sorted[1][1] = key[1] /\ sorted[1][2] = key[2]
           THEN << <<system_i - 1, pair_id - 1, pair.first, pair.second>> >>
           ELSE <<>>])

\* mutant: the half list leaves the self pairs out
HalfNeighborList_samples_block_noself(key, batch) ==
    LET positions == PairPositions(batch) IN
    ConcatAll([p \in 1 .. Len(positions) |->
        LET system_i == positions[p][1]
            pair_id == positions[p][2]
            system == batch[system_i]
            pair == system.pairs[pair_id]
            sorted == sort_pair(SpeciesOf(system, pair.first),
                                SpeciesOf(system, pair.second))
            invert == sorted[2]
            atom_i == IF invert THEN pair.second ELSE pair.first
            atom_j == IF invert THEN pair.first ELSE pair.second
        IN IF sorted[1][1] = key[1] /\ sorted[1][2] = key[2]
              /\ pair.first /= pair.second
           THEN << <<system_i - 1, pair_id - 1, atom_i, atom_j>> >>
           ELSE <<>>])

\* the rows the builder of the block of `key` receives, in add() order
HalfNeighborList_samples_block(key, batch) ==
    LET positions == PairPositions(batch) IN
    ConcatAll([p \in 1 .. Len(positions) |->
        LET system_i == positions[p][1]
            pair_id == positions[p][2]
            system == batch[system_i]
            pair == system.pairs[pair_id]
            sorted == sort_pair(SpeciesOf(system, pair.first),
                                SpeciesOf(system, pair.second))
            invert == sorted[2]
            atom_i == IF invert THEN pair.second ELSE pair.first
            atom_j == IF invert THEN pair.first ELSE pair.second
        IN IF sorted[1][1] = key[1] /\ sorted[1][2] = key[2]
           THEN << <<system_i - 1, pair_id - 1, atom_i, atom_j>> >>
           ELSE <<>>])

HalfNeighborList_samples(ks, batch) ==
    [b \in 1 .. Len(ks) |-> HalfNeighborList_samples_block(ks[b], batch)]

----------------------------------------------------------------------------
(* FullNeighborList: each pair twice, once as i-j and once as j-i *)

\* mutant: only the orientation the system reports is inserted
FullNeighborList_keys_forward(batch) ==
    BTreeSetIter({<<SpeciesOf(batch[p[1]], batch[p[1]].pairs[p[2]].first),
                    SpeciesOf(batch[p[1]], batch[p[1]].pairs[p[2]].second)>> :
                     p \in Range(PairPositions(batch))})

\* mutant: only the reversed orientation is inserted
FullNeighborList_keys_backward(batch) ==
    BTreeSetIter({<<SpeciesOf(batch[p[1]], batch[p[1]].pairs[p[2]].second),
                    SpeciesOf(batch[p[1]], batch[p[1]].pairs[p[2]].first)>> :
                     p \in Range(PairPositions(batch))})

FullNeighborList_keys(batch) ==
    LET all_species_pairs ==
            UNION {
                LET system == batch[p[1]]
                    pair == system.pairs[p[2]]
                IN {<<SpeciesOf(system, pair.first), SpeciesOf(system, pair.second)>>,
                    <<SpeciesOf(system, pair.second), SpeciesOf(system, pair.first)>>} :
                p \in Range(PairPositions(batch))}
    IN BTreeSetIter(all_species_pairs)

\* mutant: self pairs are duplicated like any pair of equal species
FullNeighborList_samples_block_selfdup(key, batch) ==
    LET positions == PairPositions(batch) IN
    ConcatAll([p \in 1 .. Len(positions) |->
        LET system_i == positions[p][1]
            pair_id == positions[p][2]
            system == batch[system_i]
            pair == system.pairs[pair_id]
            forward == <<system_i - 1, pair_id - 1, pair.first, pair.second>>
            backward == <<system_i - 1, pair_id - 1, pair.second, pair.first>>
        IN IF key[1] = key[2]
           THEN IF /\ SpeciesOf(system, pair.first) = key[1]
                   /\ SpeciesOf(system, pair.second) = key[2]
                THEN <<forward, backward>>
                ELSE <<>>
           ELSE IF /\ SpeciesOf(system, pair.first) = key[1]
                   /\ SpeciesOf(system, pair.second) = key[2]
                THEN <<forward>>
                ELSE IF /\ SpeciesOf(system, pair.second) = key[1]
                        /\ SpeciesOf(system, pair.first) = key[2]
                     THEN <<backward>>
                     ELSE <<>>])

\* mutant: the second orientation repeats the atoms of the first
FullNeighborList_samples_block_unswapped(key, batch) ==
    LET positions == PairPositions(batch) IN
    ConcatAll([p \in 1 .. Len(positions) |->
        LET system_i == positions[p][1]
            pair_id == positions[p][2]
            system == batch[system_i]
            pair == system.pairs[pair_id]
            forward == <<system_i - 1, pair_id - 1, pair.first, pair.second>>
        IN IF key[1] = key[2]
           THEN IF /\ SpeciesOf(system, pair.first) = key[1]
                   /\ SpeciesOf(system, pair.second) = key[2]
                THEN IF pair.first /= pair.second
                     THEN <<forward, forward>>
                     ELSE <<forward>>
                ELSE <<>>
           ELSE IF /\ SpeciesOf(system, pair.first) = key[1]
                   /\ SpeciesOf(system, pair.second) = key[2]
                THEN <<forward>>
                ELSE IF /\ SpeciesOf(system, pair.second) = key[1]
                        /\ SpeciesOf(system, pair.first) = key[2]
                     THEN <<forward>>
                     ELSE <<>>])

FullNeighborList_samples_block(key, batch) ==
    LET positions == PairPositions(batch) IN
    ConcatAll([p \in 1 .. Len(positions) |->
        LET system_i == positions[p][1]
            pair_id == positions[p][2]
            system == batch[system_i]
            pair == system.pairs[pair_id]
            species_first == key[1]
            species_second == key[2]
            forward == <<system_i - 1, pair_id - 1, pair.first, pair.second>>
            backward == <<system_i - 1, pair_id - 1, pair.second, pair.first>>
        IN IF species_first = species_second
           THEN \* same species for both atoms in the pair
                IF /\ SpeciesOf(system, pair.first) = species_first
                   /\ SpeciesOf(system, pair.second) = species_second
                THEN IF pair.first /= pair.second
                     THEN <<forward, backward>>
                     ELSE <<forward>>      \* do not duplicate self pairs
                ELSE <<>>
           ELSE \* different species
                IF /\ SpeciesOf(system, pair.first) = species_first
                   /\ SpeciesOf(system, pair.second) = species_second
                THEN <<forward>>
                ELSE IF /\ SpeciesOf(system, pair.second) = species_first
                        /\ SpeciesOf(system, pair.first) = species_second
                     THEN <<backward>>
                     ELSE <<>>])

FullNeighborList_samples(ks, batch) ==
    [b \in 1 .. Len(ks) |-> FullNeighborList_samples_block(ks[b], batch)]

----------------------------------------------------------------------------
(* NeighborList::positions_gradient_samples *)

\* mutant: the "sample" column holds the pair_id of the sample, not its row
positions_gradient_samples_block_pair_id(block_samples) ==
    ConcatAll([n \in 1 .. Len(block_samples) |->
        << <<block_samples[n][2], block_samples[n][1], block_samples[n][3]>>,
           <<block_samples[n][2], block_samples[n][1], block_samples[n][4]>> >>])

positions_gradient_samples_block(block_samples) ==
    ConcatAll([n \in 1 .. Len(block_samples) |->
        << <<n - 1, block_samples[n][1], block_samples[n][3]>>,
           <<n - 1, block_samples[n][1], block_samples[n][4]>> >>])

positions_gradient_samples(smpls) ==
    [b \in 1 .. Len(smpls) |-> positions_gradient_samples_block(smpls[b])]


----------------------------------------------------------------------------
(* compute: the descriptor is [keys, samples, values, gradient, panic], with *)
(* the list `written` of the entries assigned so far: <<"values", block,    *)
(* row>> and <<"gradient", block, row>>, block and row 1-based               *)

\* array[[g, d, d, 0]] = x for d = 0, 1, 2
SetDiagonal(m, x) ==
    [d \in 1 .. 3 |-> [e \in 1 .. 3 |-> IF d = e THEN x ELSE m[d][e]]]

\* index (1-based) of the first gradient sample of an atom of a system,
\* whatever its "sample" column; 0 for None
AtomPosition(rows, system_i, atom) ==
    IF \E n \in 1 .. Len(rows) : rows[n][2] = system_i - 1 /\ rows[n][3] = atom
    THEN CHOOSE n \in 1 .. Len(rows) :
            /\ rows[n][2] = system_i - 1 /\ rows[n][3] = atom
            /\ \A m \in 1 .. (n - 1) :
                  ~(rows[m][2] = system_i - 1 /\ rows[m][3] = atom)
    ELSE 0

\* mutant: the gradient rows are found by (structure, atom) only, the
\* "sample" column is not used
WriteSample_atom(desc, block_id, sample_i, system_i, first, second, vector) ==
    LET assigned == [desc EXCEPT
                        !.values[block_id][sample_i] = vector,
                        !.written = Append(@, <<"values", block_id, sample_i>>)]
    IN IF ~desc.gradient.present THEN assigned
       ELSE LET grad_samples == desc.gradient.samples[block_id]
                first_grad_sample_i == AtomPosition(grad_samples, system_i, first)
                second_grad_sample_i == AtomPosition(grad_samples, system_i, second)
            IN IF first_grad_sample_i = 0 \/ second_grad_sample_i = 0
               THEN [assigned EXCEPT !.panic = "missing gradient sample"]
               ELSE LET minus == [assigned EXCEPT
                            !.gradient.data[block_id][first_grad_sample_i] =
                                SetDiagonal(@, -1),
                            !.written = Append(@,
                                <<"gradient", block_id, first_grad_sample_i>>)]
                    IN [minus EXCEPT
                            !.gradient.data[block_id][second_grad_sample_i] =
                                SetDiagonal(@, 1),
                            !.written = Append(@,
                                <<"gradient", block_id, second_grad_sample_i>>)]

\* the writes of one sample, once its row sample_i was found in the block:
\* the vector, then -1 at the gradient row of `first` and +1 at the one of
\* `second`
WriteSample(desc, block_id, sample_i, system_i, first, second, vector) ==
    LET assigned == [desc EXCEPT
                        !.values[block_id][sample_i] = vector,
                        !.written = Append(@, <<"values", block_id, sample_i>>)]
    IN IF ~desc.gradient.present THEN assigned
       ELSE LET grad_samples == desc.gradient.samples[block_id]
                first_grad_sample_i ==
                    LabelsPosition(grad_samples, <<sample_i - 1, system_i - 1, first>>)
                second_grad_sample_i ==
                    LabelsPosition(grad_samples, <<sample_i - 1, system_i - 1, second>>)
            IN IF first_grad_sample_i = 0 \/ second_grad_sample_i = 0
               THEN [assigned EXCEPT !.panic = "missing gradient sample"]
               ELSE LET minus == [assigned EXCEPT
                            !.gradient.data[block_id][first_grad_sample_i] =
                                SetDiagonal(@, -1),
                            !.written = Append(@,
                                <<"gradient", block_id, first_grad_sample_i>>)]
                    IN [minus EXCEPT
                            !.gradient.data[block_id][second_grad_sample_i] =
                                SetDiagonal(@, 1),
                            !.written = Append(@,
                                <<"gradient", block_id, second_grad_sample_i>>)]

\* mutant: the vector of an inverted pair is not negated
HalfNeighborList_compute_pair_noneg(desc, batch, system_i, pair_id) ==
    LET system == batch[system_i]
        pair == system.pairs[pair_id]
        sorted == sort_pair(SpeciesOf(system, pair.first),
                            SpeciesOf(system, pair.second))
        invert == sorted[2]
        atom_i == IF invert THEN pair.second ELSE pair.first
        atom_j == IF invert THEN pair.first ELSE pair.second
        block_id == LabelsPosition(desc.keys, sorted[1])
    IN IF block_id = 0 THEN [desc EXCEPT !.panic = "missing block"]
       ELSE LET sample_i == LabelsPosition(desc.samples[block_id],
                                <<system_i - 1, pair_id - 1, atom_i, atom_j>>)
            IN IF sample_i = 0 THEN desc
               ELSE WriteSample(desc, block_id, sample_i, system_i,
                                atom_i, atom_j, pair.vector)

\* mutant: the sample row of the pair is expected to be there
HalfNeighborList_compute_pair_expect(desc, batch, system_i, pair_id) ==
    LET system == batch[system_i]
        pair == system.pairs[pair_id]
        sorted == sort_pair(SpeciesOf(system, pair.first),
                            SpeciesOf(system, pair.second))
        invert == sorted[2]
        pair_vector == IF invert THEN Neg(pair.vector) ELSE pair.vector
        atom_i == IF invert THEN pair.second ELSE pair.first
        atom_j == IF invert THEN pair.first ELSE pair.second
        block_id == LabelsPosition(desc.keys, sorted[1])
    IN IF block_id = 0 THEN [desc EXCEPT !.panic = "missing block"]
       ELSE LET sample_i == LabelsPosition(desc.samples[block_id],
                                <<system_i - 1, pair_id - 1, atom_i, atom_j>>)
            IN IF sample_i = 0 THEN [desc EXCEPT !.panic = "missing sample"]
               ELSE WriteSample(desc, block_id, sample_i, system_i,
                                atom_i, atom_j, pair_vector)

\* body of the loop over the pairs of HalfNeighborList::compute
HalfNeighborList_compute_pair(desc, batch, system_i, pair_id) ==
    LET system == batch[system_i]
        pair == system.pairs[pair_id]
        sorted == sort_pair(SpeciesOf(system, pair.first),
                            SpeciesOf(system, pair.second))
        invert == sorted[2]
        pair_vector == IF invert THEN Neg(pair.vector) ELSE pair.vector
        atom_i == IF invert THEN pair.second ELSE pair.first
        atom_j == IF invert THEN pair.first ELSE pair.second
        block_id == LabelsPosition(desc.keys, sorted[1])
    IN IF block_id = 0 THEN [desc EXCEPT !.panic = "missing block"]
       ELSE LET sample_i == LabelsPosition(desc.samples[block_id],
                                <<system_i - 1, pair_id - 1, atom_i, atom_j>>)
            IN IF sample_i = 0 THEN desc
               ELSE WriteSample(desc, block_id, sample_i, system_i,
                                atom_i, atom_j, pair_vector)

\* mutant: the second -> first orientation gets the vector as reported
FullNeighborList_compute_pair_noneg(desc, batch, system_i, pair_id) ==
    LET system == batch[system_i]
        pair == system.pairs[pair_id]
        species_first == SpeciesOf(system, pair.first)
        species_second == SpeciesOf(system, pair.second)
        first_block_id == LabelsPosition(desc.keys, <<species_first, species_second>>)
        second_block_id == IF species_first = species_second THEN 0
                           ELSE LabelsPosition(desc.keys, <<species_second, species_first>>)
    IN IF first_block_id = 0 \/ (species_first /= species_second /\ second_block_id = 0)
       THEN [desc EXCEPT !.panic = "missing block"]
       ELSE LET sample_i == LabelsPosition(desc.samples[first_block_id],
                                <<system_i - 1, pair_id - 1, pair.first, pair.second>>)
                forward == IF sample_i = 0 THEN desc
                           ELSE WriteSample(desc, first_block_id, sample_i, system_i,
                                            pair.first, pair.second, pair.vector)
                block_id == IF second_block_id /= 0 THEN second_block_id
                            ELSE first_block_id
                sample_j == LabelsPosition(desc.samples[block_id],
                                <<system_i - 1, pair_id - 1, pair.second, pair.first>>)
            IN IF forward.panic /= "none" THEN forward
               ELSE IF second_block_id = 0 /\ pair.first = pair.second
                    THEN forward
                    ELSE IF sample_j = 0 THEN forward
                         ELSE WriteSample(forward, block_id, sample_j, system_i,
                                          pair.second, pair.first, pair.vector)

\* body of the loop over the pairs of FullNeighborList::compute
FullNeighborList_compute_pair(desc, batch, system_i, pair_id) ==
    LET system == batch[system_i]
        pair == system.pairs[pair_id]
        species_first == SpeciesOf(system, pair.first)
        species_second == SpeciesOf(system, pair.second)
        first_block_id == LabelsPosition(desc.keys, <<species_first, species_second>>)
        \* 0 stands for None here: the lookup is only made for different species
        second_block_id == IF species_first = species_second THEN 0
                           ELSE LabelsPosition(desc.keys, <<species_second, species_first>>)
    IN IF first_block_id = 0 \/ (species_first /= species_second /\ second_block_id = 0)
       THEN [desc EXCEPT !.panic = "missing block"]
       ELSE LET \* first, the pair first -> second
                sample_i == LabelsPosition(desc.samples[first_block_id],
                                <<system_i - 1, pair_id - 1, pair.first, pair.second>>)
                forward == IF sample_i = 0 THEN desc
                           ELSE WriteSample(desc, first_block_id, sample_i, system_i,
                                            pair.first, pair.second, pair.vector)
                \* then the pair second -> first
                block_id == IF second_block_id /= 0 THEN second_block_id
                            ELSE first_block_id
                sample_j == LabelsPosition(desc.samples[block_id],
                                <<system_i - 1, pair_id - 1, pair.second, pair.first>>)
            IN IF forward.panic /= "none" THEN forward
               ELSE IF second_block_id = 0 /\ pair.first = pair.second
                    THEN forward        \* do not duplicate self pairs
                    ELSE IF sample_j = 0 THEN forward
                         ELSE WriteSample(forward, block_id, sample_j, system_i,
                                          pair.second, pair.first, Neg(pair.vector))

\* mutant: the loops leave the first pair out
RECURSIVE compute_from_second(_, _, _, _)
compute_from_second(full, desc, batch, p) ==
    IF p + 1 > Len(PairPositions(batch)) \/ desc.panic /= "none" THEN desc
    ELSE LET system_i == PairPositions(batch)[p + 1][1]
             pair_id == PairPositions(batch)[p + 1][2]
         IN compute_from_second(full,
                IF full THEN FullNeighborList_compute_pair(desc, batch, system_i, pair_id)
                ELSE HalfNeighborList_compute_pair(desc, batch, system_i, pair_id),
                batch, p + 1)

\* the loops over the systems and their pairs, from position p on; a panic
\* ends them
RECURSIVE compute_from(_, _, _, _)
compute_from(full, desc, batch, p) ==
    IF p > Len(PairPositions(batch)) \/ desc.panic /= "none" THEN desc
    ELSE LET system_i == PairPositions(batch)[p][1]
             pair_id == PairPositions(batch)[p][2]
         IN compute_from(full,
                IF full THEN FullNeighborList_compute_pair(desc, batch, system_i, pair_id)
                ELSE HalfNeighborList_compute_pair(desc, batch, system_i, pair_id),
                batch, p + 1)

HalfNeighborList_compute(batch, desc) == compute_from(FALSE, desc, batch, 1)

FullNeighborList_compute(batch, desc) == compute_from(TRUE, desc, batch, 1)

----------------------------------------------------------------------------
(* impl CalculatorBase for NeighborList *)

\* cutoff > 0.0 on f64: every comparison with NaN is false
GreaterThanZero(c) == c.class /= "nan" /\ c.value > 0

\* f64::is_finite
is_finite(c) == c.class = "finite"

\* the assert without the finiteness test
CutoffAssert_positive(c) == GreaterThanZero(c)

\* assert!(self.cutoff > 0.0 && self.cutoff.is_finite())
CutoffAssert(c) == GreaterThanZero(c) /\ is_finite(c)

NeighborList_keys(full, batch) ==
    IF full THEN FullNeighborList_keys(batch) ELSE HalfNeighborList_keys(batch)

NeighborList_samples(full, ks, batch) ==
    IF full THEN FullNeighborList_samples(ks, batch)
    ELSE HalfNeighborList_samples(ks, batch)

\* mutant: compute expects at least one block
NeighborList_compute_nonempty(full, batch, desc) ==
    IF Len(desc.keys) = 0 THEN [desc EXCEPT !.panic = "missing block"]
    ELSE IF full THEN FullNeighborList_compute(batch, desc)
    ELSE HalfNeighborList_compute(batch, desc)

NeighborList_compute(full, batch, desc) ==
    IF full THEN FullNeighborList_compute(batch, desc)
    ELSE HalfNeighborList_compute(batch, desc)

----------------------------------------------------------------------------
(* The batches of systems given to the calculator *)

PairSet == [first : Atoms, second : Atoms, vector : Vectors]

\* the neighbor list of a system is the one of the cutoff given to its last
\* compute_neighbors(cutoff); `pairs` is what pairs() reports once it was
\* computed for a cutoff the calculator accepts
NotComputed == [class |-> "none", value |-> 0]

\* system.compute_neighbors(cutoff) in a loop over the systems: the loop
\* ends at the system number `fail` (0: none), whose call returns Err
compute_neighbors_all(batch, c, fail) ==
    [s \in 1 .. Len(batch) |->
        IF fail = 0 \/ s < fail THEN [batch[s] EXCEPT !.neighbors = c]
        ELSE batch[s]]

\* mutant: the neighbor lists are computed before the assertion is checked
NeighborList_asserted_late(c, batch, after) == after

\* assert!(cutoff > 0 && is_finite) comes first in keys() and samples():
\* `after` is the batch once the implementation was called, which a failed
\* assertion prevents
NeighborList_asserted(c, batch, after) ==
    IF CutoffAssert(c) THEN after ELSE batch

\* the pairs of a batch of m systems, each with the system reporting it
TaggedPairListsOf(m, pairs) ==
    {t \in UNION {[1 .. n -> (1 .. m) \X pairs] : n \in 0 .. MaxPairs} :
        \A n \in 1 .. (Len(t) - 1) : t[n][1] <= t[n + 1][1]}

TaggedPairLists(m) == TaggedPairListsOf(m, PairSet)

RECURSIVE PairsOfSystem(_, _)
PairsOfSystem(tagged, s) ==
    IF Len(tagged) = 0 THEN <<>>
    ELSE (IF Head(tagged)[1] = s THEN <<Head(tagged)[2]>> ELSE <<>>)
            \o PairsOfSystem(Tail(tagged), s)

\* the batch of m systems with the given species and pairs
Batch(m, sp, tagged) ==
    [s \in 1 .. m |-> [species |-> sp[s], pairs |-> PairsOfSystem(tagged, s),
                       neighbors |-> NotComputed]]

----------------------------------------------------------------------------
(* The invocation of the calculator by the driver:                          *)
(* Idle -> KeysBuilt -> SamplesBuilt -> Allocated -> Filled                 *)

NoGradient == [present |-> FALSE, samples |-> <<>>, data |-> <<>>]

ZeroMatrix == <<<<0, 0, 0>>, <<0, 0, 0>>, <<0, 0, 0>>>>

\* arrays of zeros of the shape given by the labels
ZeroValues(smpls) ==
    [b \in 1 .. Len(smpls) |-> [n \in 1 .. Len(smpls[b]) |-> <<0, 0, 0>>]]

ZeroGradient(grad_samples) ==
    [present |-> TRUE,
     samples |-> grad_samples,
     data |-> [b \in 1 .. Len(grad_samples) |->
                  [g \in 1 .. Len(grad_samples[b]) |-> ZeroMatrix]]]

\* no earlier invocation
NoPrevious ==
    [present |-> FALSE, keys |-> <<>>, samples |-> <<>>, values |-> <<>>,
     gradient |-> NoGradient]

\* the descriptor handed to compute
Descriptor ==
    [keys |-> keys, samples |-> samples, values |-> values,
     gradient |-> gradient, written |-> <<>>, panic |-> "none"]

\* keys, samples, allocation without gradients and compute of one
\* calculator over a batch
NeighborList_run(full, batch) ==
    LET ks == NeighborList_keys(full, batch)
        smpls == NeighborList_samples(full, ks, batch)
    IN NeighborList_compute(full, batch,
            [keys |-> ks, samples |-> smpls, values |-> ZeroValues(smpls),
             gradient |-> NoGradient, written |-> <<>>, panic |-> "none"])

\* the seven operations of the System trait
Operations ==
    {"size", "species", "positions", "cell", "compute_neighbors", "pairs",
     "pairs_containing"}

\* no foreign system in use: nothing was called
NoForeign ==
    [vtable |-> [op \in Operations |-> TRUE], called |-> "none",
     outcome |-> "none", message |-> "none"]

\* no samples builder in use
NoBuilder ==
    [kind |-> "none", self_contribution |-> FALSE, requested |-> <<>>,
     indexes |-> <<>>, gradients |-> <<>>, stage |-> "none"]

\* Descriptor::new
Descriptor_new ==
    [values |-> [shape |-> <<0, 0>>, data |-> <<>>],
     environments |-> [names |-> <<>>, rows |-> <<>>],
     features |-> [names |-> <<>>, rows |-> <<>>],
     gradients |-> [some |-> FALSE, shape |-> <<0, 0>>, data |-> <<>>],
     gradients_indexes |-> [some |-> FALSE,
                            indexes |-> [names |-> <<>>, rows |-> <<>>]],
     panicked |-> "none",
     stage |-> "new"]

\* a calculator before its invocation, over a batch of one of the given
\* sizes and with one of the given cutoffs
InitCalculator(sizes, cutoffs) ==
    /\ \E m \in sizes :
          \E sp \in [1 .. m -> [1 .. Cardinality(Atoms) -> Species]] :
             \E tagged \in TaggedPairLists(m) :
                systems = Batch(m, sp, tagged)
    /\ cutoff \in cutoffs
    /\ full_neighbor_list \in BOOLEAN
    /\ pc = "Idle"
    /\ panic = "none"
    /\ error = "none"
    /\ failing = 0
    /\ keys = <<>>
    /\ samples = <<>>
    /\ values = <<>>
    /\ gradient = NoGradient
    /\ written = <<>>
    /\ previous = NoPrevious

Init ==
    /\ InitCalculator(BatchSizes, Cutoffs)
    /\ foreign = NoForeign
    /\ builder = NoBuilder
    /\ descriptor = Descriptor_new

\* a panic: the invocation is aborted, no value is returned
Abort(reason) ==
    /\ pc' = "Aborted"
    /\ panic' = reason
    /\ UNCHANGED error

\* `?` on the Err of compute_neighbors(), species() or pairs(): the
\* Error::NeighborList of the system is returned to the caller
Fail ==
    /\ pc' = "Failed"
    /\ error' = "NeighborList"
    /\ UNCHANGED panic

\* NeighborList::keys
Keys ==
    /\ pc = "Idle"
    /\ IF ~CutoffAssert(cutoff)
       THEN Abort("assertion failed") /\ UNCHANGED keys
       ELSE IF failing /= 0
            THEN Fail /\ UNCHANGED keys
            ELSE /\ keys' = NeighborList_keys(full_neighbor_list, systems)
                 /\ pc' = "KeysBuilt"
                 /\ UNCHANGED <<panic, error>>
    /\ systems' = NeighborList_asserted(cutoff, systems,
                        compute_neighbors_all(systems, cutoff, failing))
    /\ UNCHANGED <<cutoff, full_neighbor_list, failing, samples, values,
                   gradient, written, previous>>
    /\ UNCHANGED besides_calculator

\* NeighborList::samples
Samples ==
    /\ pc = "KeysBuilt"
    /\ LET rows == NeighborList_samples(full_neighbor_list, keys, systems)
       IN IF ~CutoffAssert(cutoff)
          THEN Abort("assertion failed") /\ UNCHANGED samples
          ELSE IF failing /= 0 /\ Len(keys) > 0
               THEN Fail /\ UNCHANGED samples
               ELSE IF \E b \in 1 .. Len(rows) : LabelsHasDuplicate(rows[b])
                    THEN Abort("duplicate sample row") /\ UNCHANGED samples
                    ELSE /\ samples' = rows
                         /\ pc' = "SamplesBuilt"
                         /\ UNCHANGED <<panic, error>>
    \* the loop over the systems is inside the loop over the keys
    /\ systems' = NeighborList_asserted(cutoff, systems,
                        IF Len(keys) = 0 THEN systems
                        ELSE compute_neighbors_all(systems, cutoff, failing))
    /\ UNCHANGED <<cutoff, full_neighbor_list, failing, keys, values, gradient,
                   written, previous>>
    /\ UNCHANGED besides_calculator

\* the driver builds the gradient samples when the caller asks for the
\* positions gradient, and allocates the blocks
Allocate ==
    /\ pc = "SamplesBuilt"
    /\ \E request \in BOOLEAN :
          LET rows == positions_gradient_samples(samples)
          IN IF request /\ \E b \in 1 .. Len(rows) : LabelsHasDuplicate(rows[b])
             THEN Abort("duplicate gradient sample row")
                  /\ UNCHANGED <<values, gradient>>
             ELSE /\ values' = ZeroValues(samples)
                  /\ gradient' = IF request THEN ZeroGradient(rows) ELSE NoGradient
                  /\ pc' = "Allocated"
                  /\ UNCHANGED <<panic, error>>
    /\ UNCHANGED <<systems, cutoff, full_neighbor_list, failing, keys, samples,
                   written, previous>>
    /\ UNCHANGED besides_calculator

\* NeighborList::compute
Compute ==
    /\ pc = "Allocated"
    /\ LET \* the systems the loop goes through before `?` returns
           reached == IF failing = 0 THEN systems
                      ELSE SubSeq(systems, 1, failing - 1)
           result == NeighborList_compute(full_neighbor_list, reached, Descriptor)
       IN /\ values' = result.values
          /\ gradient' = result.gradient
          /\ panic' = result.panic
          /\ error' = IF result.panic = "none" /\ failing /= 0
                      THEN "NeighborList" ELSE "none"
          /\ written' = result.written
          /\ pc' = IF result.panic /= "none" THEN "Aborted"
                   ELSE IF failing /= 0 THEN "Failed" ELSE "Filled"
    /\ systems' = compute_neighbors_all(systems, cutoff, failing)
    /\ UNCHANGED <<cutoff, full_neighbor_list, failing, keys, samples, previous>>
    /\ UNCHANGED besides_calculator

Next == Keys \/ Samples \/ Allocate \/ Compute

Spec == Init /\ [][Next]_vars

\* The neighbor list implementation of the systems changes between two
\* calls of the half list calculator: it reports some pairs of two atoms in
\* the other orientation, (second, first, -vector) in place of (first,
\* second, vector).
\* The descriptor of the first call is kept for comparison.
ChangeNeighborList ==
    /\ pc = "Filled"
    /\ ~full_neighbor_list
    /\ ~previous.present
    /\ \E reversed \in SUBSET {p \in Range(PairPositions(systems)) :
                    systems[p[1]].pairs[p[2]].first /= systems[p[1]].pairs[p[2]].second} :
          /\ reversed /= {}
          /\ systems' = [s \in 1 .. Len(systems) |->
                [systems[s] EXCEPT !.pairs =
                    [k \in 1 .. Len(systems[s].pairs) |->
                        IF <<s, k>> \in reversed
                        THEN [first |-> systems[s].pairs[k].second,
                              second |-> systems[s].pairs[k].first,
                              vector |-> Neg(systems[s].pairs[k].vector)]
                        ELSE systems[s].pairs[k]]]]
    /\ previous' = [present |-> TRUE, keys |-> keys, samples |-> samples,
                    values |-> values, gradient |-> gradient]
    /\ pc' = "Idle"
    /\ keys' = <<>>
    /\ samples' = <<>>
    /\ values' = <<>>
    /\ gradient' = NoGradient
    /\ written' = <<>>
    /\ UNCHANGED <<cutoff, full_neighbor_list, panic, error, failing>>
    /\ UNCHANGED besides_calculator

NextChanged == Keys \/ Samples \/ Allocate \/ Compute \/ ChangeNeighborList

SpecChanged == Init /\ [][NextChanged]_vars

\* cutoff is a public field of NeighborList: the caller changes it between
\* keys() and samples()
SetCutoff ==
    /\ pc = "KeysBuilt"
    /\ \E c \in AllCutoffs : c /= cutoff /\ cutoff' = c
    /\ UNCHANGED <<systems, full_neighbor_list, pc, panic, error, failing, keys,
                   samples, values, gradient, written, previous>>
    /\ UNCHANGED besides_calculator

\* single system batches, and cutoffs of every class
InitCutoff ==
    /\ InitCalculator({1}, AllCutoffs)
    /\ foreign = NoForeign
    /\ builder = NoBuilder
    /\ descriptor = Descriptor_new

NextCutoff == Keys \/ Samples \/ Allocate \/ Compute \/ SetCutoff

SpecCutoff == InitCutoff /\ [][NextCutoff]_vars

\* The neighbor list of one system of the batch starts to fail: from now on
\* its compute_neighbors() returns Err(Error::NeighborList).
Break ==
    /\ pc \in {"Idle", "KeysBuilt", "SamplesBuilt", "Allocated"}
    /\ failing = 0
    /\ \E n \in 1 .. Len(systems) : failing' = n
    /\ UNCHANGED <<systems, cutoff, full_neighbor_list, pc, panic, error, keys,
                   samples, values, gradient, written, previous>>
    /\ UNCHANGED besides_calculator

NextFailing == Keys \/ Samples \/ Allocate \/ Compute \/ Break

SpecFailing == Init /\ [][NextFailing]_vars

\* The caller invokes the calculator a second time, on the same systems and
\* with the same parameters.  The descriptor of the first call is kept for
\* comparison.
Rerun ==
    /\ pc = "Filled"
    /\ ~previous.present
    /\ previous' = [present |-> TRUE, keys |-> keys, samples |-> samples,
                    values |-> values, gradient |-> gradient]
    /\ pc' = "Idle"
    /\ keys' = <<>>
    /\ samples' = <<>>
    /\ values' = <<>>
    /\ gradient' = NoGradient
    /\ written' = <<>>
    /\ UNCHANGED <<systems, cutoff, full_neighbor_list, panic, error, failing>>
    /\ UNCHANGED besides_calculator

\* single system batches, and a cutoff keys() and samples() accept
InitRerun ==
    /\ InitCalculator({1}, {Finite(2)})
    /\ foreign = NoForeign
    /\ builder = NoBuilder
    /\ descriptor = Descriptor_new

NextRerun == Keys \/ Samples \/ Allocate \/ Compute \/ Rerun

SpecRerun == InitRerun /\ [][NextRerun]_vars

----------------------------------------------------------------------------
(* impl System for &mut rascal_system_t (rascaline-c-api/src/system.rs):    *)
(* a system implemented in another language, every operation of which is a *)
(* function pointer that may be NULL                                        *)

\* a calculator that is not called
CalculatorIdle ==
    /\ cutoff = Finite(2)
    /\ full_neighbor_list = FALSE
    /\ pc = "Idle"
    /\ panic = "none"
    /\ error = "none"
    /\ failing = 0
    /\ keys = <<>>
    /\ samples = <<>>
    /\ values = <<>>
    /\ gradient = NoGradient
    /\ written = <<>>
    /\ previous = NoPrevious

\* no calculator and no system
CalculatorUnused == systems = <<>> /\ CalculatorIdle

calculator_vars ==
    <<systems, cutoff, full_neighbor_list, pc, panic, error, failing, keys,
      samples, values, gradient, written, previous>>

\* the messages of Option::expect
NullMessage ==
    [op \in Operations |->
        CASE op = "size" -> "rascal_system_t.size is NULL"
          [] op = "species" -> "rascal_system_t.species is NULL"
          [] op = "positions" -> "rascal_system_t.positions is NULL"
          [] op = "cell" -> "rascal_system_t.cell is NULL"
          [] op = "compute_neighbors" -> "rascal_system_t.compute_neighbors is NULL"
          [] op = "pairs" -> "rascal_system_t.pairs is NULL"
          [] op = "pairs_containing" -> "rascal_system_t.pairs_containing is NULL"]

\* A call of the operation op, which unwraps the given function pointers in
\* order with Option::expect: the first NULL one panics with its message.
\* The operations return plain values (usize, slices, UnitCell), not a
\* Result.
Call(op, pointers) ==
    LET null == {n \in 1 .. Len(pointers) : ~foreign.vtable[pointers[n]]}
    IN IF null = {}
       THEN foreign' = [foreign EXCEPT !.called = op, !.outcome = "returned",
                                       !.message = "none"]
       ELSE LET first == CHOOSE n \in null : \A k \in null : n <= k
            IN foreign' = [foreign EXCEPT !.called = op, !.outcome = "panicked",
                                           !.message = NullMessage[pointers[first]]]

System_size ==
    /\ foreign.outcome /= "panicked"
    /\ Call("size", <<"size">>)
    /\ UNCHANGED calculator_vars
    /\ UNCHANGED <<builder, descriptor>>

\* the slice is built with self.size()
System_species ==
    /\ foreign.outcome /= "panicked"
    /\ Call("species", <<"species", "size">>)
    /\ UNCHANGED calculator_vars
    /\ UNCHANGED <<builder, descriptor>>

\* the slice is built with self.size()
System_positions ==
    /\ foreign.outcome /= "panicked"
    /\ Call("positions", <<"positions", "size">>)
    /\ UNCHANGED calculator_vars
    /\ UNCHANGED <<builder, descriptor>>

System_cell ==
    /\ foreign.outcome /= "panicked"
    /\ Call("cell", <<"cell">>)
    /\ UNCHANGED calculator_vars
    /\ UNCHANGED <<builder, descriptor>>

System_compute_neighbors ==
    /\ foreign.outcome /= "panicked"
    /\ Call("compute_neighbors", <<"compute_neighbors">>)
    /\ UNCHANGED calculator_vars
    /\ UNCHANGED <<builder, descriptor>>

System_pairs ==
    /\ foreign.outcome /= "panicked"
    /\ Call("pairs", <<"pairs">>)
    /\ UNCHANGED calculator_vars
    /\ UNCHANGED <<builder, descriptor>>

System_pairs_containing ==
    /\ foreign.outcome /= "panicked"
    /\ Call("pairs_containing", <<"pairs_containing">>)
    /\ UNCHANGED calculator_vars
    /\ UNCHANGED <<builder, descriptor>>

\* any rascal_system_t: every function pointer is set or NULL
InitForeign ==
    /\ CalculatorUnused
    /\ \E vtable \in [Operations -> BOOLEAN] :
          foreign = [NoForeign EXCEPT !.vtable = vtable]
    /\ builder = NoBuilder
    /\ descriptor = Descriptor_new

NextForeign ==
    \/ System_size
    \/ System_species
    \/ System_positions
    \/ System_cell
    \/ System_compute_neighbors
    \/ System_pairs
    \/ System_pairs_containing

SpecForeign == InitForeign /\ [][NextForeign]_vars

----------------------------------------------------------------------------
(* The samples builders (rascaline/src/descriptor/indexes/species.rs).      *)
(* Species are usize here.                                                  *)

\* lexicographic order of tuples of the same length: Ord of Rust tuples
LexLess(a, b) ==
    \E k \in 1 .. Len(a) : a[k] < b[k] /\ \A j \in 1 .. (k - 1) : a[j] = b[j]

\* iteration over a BTreeSet of tuples: ascending order
RECURSIVE BTreeSet_iter(_)
BTreeSet_iter(set) ==
    IF set = {} THEN <<>>
    ELSE LET min == CHOOSE a \in set : \A b \in set \ {a} : LexLess(a, b)
         IN <<min>> \o BTreeSet_iter(set \ {min})

\* IndexSet::insert: at the end, when the value is not in the set
IndexSet_insert(set, value) ==
    IF value \in Range(set) THEN set ELSE Append(set, value)

\* IndexSet: the values inserted, each once, in the order of their first
\* insertion
RECURSIVE IndexSet_from(_)
IndexSet_from(inserted) ==
    IF Len(inserted) = 0 THEN <<>>
    ELSE LET before == IndexSet_from(SubSeq(inserted, 1, Len(inserted) - 1))
             value == inserted[Len(inserted)]
         IN IF value \in Range(before) THEN before ELSE Append(before, value)

\* SortedVecSet::insert: binary search, insertion at the index found when
\* the value is not there
SortedVecSet_insert(data, value) ==
    IF value \in Range(data) THEN data
    ELSE LET index == Cardinality({n \in 1 .. Len(data) : LexLess(data[n], value)})
         IN SubSeq(data, 1, index) \o <<value>> \o SubSeq(data, index + 1, Len(data))

RECURSIVE SortedVecSet_from(_)
SortedVecSet_from(inserted) ==
    IF Len(inserted) = 0 THEN <<>>
    ELSE SortedVecSet_insert(
            SortedVecSet_from(SubSeq(inserted, 1, Len(inserted) - 1)),
            inserted[Len(inserted)])

\* System::pairs_containing: the pairs of the system with the atom `center`
pairs_containing(system, center) ==
    SelectSeq(system.pairs, LAMBDA pair : pair.first = center \/ pair.second = center)

\* the three rows of a gradient sample, one per spatial direction
Spatial(row) == <<Append(row, 0), Append(row, 1), Append(row, 2)>>

\* StructureSpeciesSamples::indexes
StructureSpeciesSamples_indexes(batch) ==
    ConcatAll([i_system \in 1 .. Len(batch) |->
        LET set == BTreeSet_iter({<<a>> : a \in Range(batch[i_system].species)})
        IN [n \in 1 .. Len(set) |-> <<i_system - 1, set[n][1]>>]])

\* mutant: every atom of the system participates to the gradient
StructureSpeciesSamples_gradients_for_all(batch, requested) ==
    ConcatAll([n \in 1 .. Len(requested) |->
        LET i_system == requested[n][1]
            alpha == requested[n][2]
            species == batch[i_system + 1].species
        IN ConcatAll([i_atom \in 1 .. Len(species) |->
                Spatial(<<i_system, alpha, i_atom - 1>>)])])

\* StructureSpeciesSamples::gradients_for
StructureSpeciesSamples_gradients_for(batch, requested) ==
    ConcatAll([n \in 1 .. Len(requested) |->
        LET i_system == requested[n][1]
            alpha == requested[n][2]
            species == batch[i_system + 1].species
        IN ConcatAll([i_atom \in 1 .. Len(species) |->
                \* only atoms with the same species participate to the gradient
                IF species[i_atom] = alpha
                THEN Spatial(<<i_system, alpha, i_atom - 1>>)
                ELSE <<>>])])

\* mutant: the row of the second atom of a pair is not inserted
AtomSpeciesSamples_indexes_first(batch, self_contribution) ==
    BTreeSet_iter(UNION {
        {<<i_system - 1, batch[i_system].pairs[k].first,
           SpeciesOf(batch[i_system], batch[i_system].pairs[k].first),
           SpeciesOf(batch[i_system], batch[i_system].pairs[k].second)>> :
                k \in 1 .. Len(batch[i_system].pairs)}
        \cup (IF self_contribution
              THEN {<<i_system - 1, center - 1, batch[i_system].species[center],
                      batch[i_system].species[center]>> :
                        center \in 1 .. Len(batch[i_system].species)}
              ELSE {}) : i_system \in 1 .. Len(batch)})

\* AtomSpeciesSamples::indexes
AtomSpeciesSamples_indexes(batch, self_contribution) ==
    BTreeSet_iter(UNION {
        UNION {LET pair == batch[i_system].pairs[k]
                   species_first == SpeciesOf(batch[i_system], pair.first)
                   species_second == SpeciesOf(batch[i_system], pair.second)
               IN {<<i_system - 1, pair.first, species_first, species_second>>,
                   <<i_system - 1, pair.second, species_second, species_first>>} :
                        k \in 1 .. Len(batch[i_system].pairs)}
        \cup (IF self_contribution
              THEN {<<i_system - 1, center - 1, batch[i_system].species[center],
                      batch[i_system].species[center]>> :
                        center \in 1 .. Len(batch[i_system].species)}
              ELSE {}) : i_system \in 1 .. Len(batch)})

\* the tuples inserted in the IndexSet of AtomSpeciesSamples::gradients_for
\* for one requested row
AtomSpeciesSamples_gradients_for_row(batch, requested) ==
    LET i_system == requested[1]
        center == requested[2]
        species_neighbor == requested[4]
        system == batch[i_system + 1]
        pairs == pairs_containing(system, center)
    IN ConcatAll([k \in 1 .. Len(pairs) |->
            LET pair == pairs[k]
                species_first == SpeciesOf(system, pair.first)
                species_second == SpeciesOf(system, pair.second)
            IN IF pair.first = center /\ species_second = species_neighbor
               THEN <<<<i_system, pair.first, species_first, species_second,
                        pair.second>>>>
               ELSE IF pair.second = center /\ species_first = species_neighbor
                    THEN <<<<i_system, pair.second, species_second, species_first,
                             pair.first>>>>
                    ELSE <<>>])

\* mutant: the gradient rows come out in sorted order
AtomSpeciesSamples_gradients_for_sorted(batch, smpls) ==
    LET indexes == BTreeSet_iter(Range(ConcatAll([n \in 1 .. Len(smpls) |->
                        AtomSpeciesSamples_gradients_for_row(batch, smpls[n])])))
    IN ConcatAll([n \in 1 .. Len(indexes) |-> Spatial(indexes[n])])

\* AtomSpeciesSamples::gradients_for
AtomSpeciesSamples_gradients_for(batch, smpls) ==
    LET indexes == IndexSet_from(ConcatAll([n \in 1 .. Len(smpls) |->
                        AtomSpeciesSamples_gradients_for_row(batch, smpls[n])]))
    IN ConcatAll([n \in 1 .. Len(indexes) |-> Spatial(indexes[n])])

\* the other end of a pair of pairs_containing(center)
OtherEnd(pair, center) == IF pair.first = center THEN pair.second ELSE pair.first

\* triplets_around: the (i, j) of the triplets i-center-j
triplets_around(system, center) ==
    LET pairs == pairs_containing(system, center)
    IN ConcatAll([p \in 1 .. Len(pairs) |->
            [q \in 1 .. Len(pairs) |->
                <<OtherEnd(pairs[p], center), OtherEnd(pairs[q], center)>>]])

\* mutant of the closure sort_pair: the species are kept in the order given
ThreeBodies_sort_pair_unsorted(i, j) == <<i, j>>

\* the closure sort_pair of ThreeBodiesSpeciesSamples
ThreeBodies_sort_pair(i, j) == IF i < j THEN <<i, j>> ELSE <<j, i>>

\* ThreeBodiesSpeciesSamples::indexes
ThreeBodiesSpeciesSamples_indexes(batch, self_contribution) ==
    SortedVecSet_from(ConcatAll([i_system \in 1 .. Len(batch) |->
        LET system == batch[i_system]
            species == system.species
        IN ConcatAll([center \in 1 .. Len(species) |->
                LET triplets == triplets_around(system, center - 1)
                IN [t \in 1 .. Len(triplets) |->
                      LET sorted == ThreeBodies_sort_pair(
                                        SpeciesOf(system, triplets[t][1]),
                                        SpeciesOf(system, triplets[t][2]))
                      IN <<i_system - 1, center - 1, species[center],
                           sorted[1], sorted[2]>>]])
           \o (IF self_contribution
               THEN ConcatAll([center \in 1 .. Len(species) |->
                        LET pairs == pairs_containing(system, center - 1)
                        IN <<<<i_system - 1, center - 1, species[center],
                               species[center], species[center]>>>>
                           \o [k \in 1 .. Len(pairs) |->
                                 LET sorted == ThreeBodies_sort_pair(
                                        species[center],
                                        SpeciesOf(system, OtherEnd(pairs[k], center - 1)))
                                 IN <<i_system - 1, center - 1, species[center],
                                      sorted[1], sorted[2]>>]])
               ELSE <<>>)]))

\* IndexSet filled by a sequence of inserts: every value at the place of its
\* first insertion
IndexSet_collect(inserted) ==
    LET first == SelectSeq([n \in 1 .. Len(inserted) |-> n],
                           LAMBDA n : \A m \in 1 .. (n - 1) : inserted[m] /= inserted[n])
    IN [k \in 1 .. Len(first) |-> inserted[first[k]]]

\* ThreeBodiesSpeciesSamples::gradients_for
ThreeBodiesSpeciesSamples_gradients_for(batch, smpls) ==
    LET indexes == IndexSet_collect(ConcatAll([n \in 1 .. Len(smpls) |->
            LET requested == smpls[n]
                i_system == requested[1]
                center == requested[2]
                system == batch[i_system + 1]
                triplets == triplets_around(system, center)
            IN ConcatAll([t \in 1 .. Len(triplets) |->
                    LET i == triplets[t][1]
                        j == triplets[t][2]
                        sorted == ThreeBodies_sort_pair(SpeciesOf(system, i),
                                                        SpeciesOf(system, j))
                    IN <<<<i_system, center, SpeciesOf(system, center),
                           sorted[1], sorted[2], i>>,
                         <<i_system, center, SpeciesOf(system, center),
                           sorted[1], sorted[2], j>>>>])]))
    IN ConcatAll([n \in 1 .. Len(indexes) |-> Spatial(indexes[n])])

\* the species of the systems of the tests: CH (H, C), water (O, H, H)
Molecules == {<<1, 6>>, <<123456, 1, 1>>}

\* the pairs of a neighbor list: between two different atoms, every pair
\* reported as i-j with i < j and not also as j-i
MoleculePairs ==
    {pair \in [first : {0, 1, 2}, second : {0, 1, 2}, vector : {<<3, 0, 1>>}] :
        pair.first < pair.second}

\* the requests of gradient samples: some rows, each once, in any order
Requests(rows) ==
    {r \in UNION {[1 .. n -> Range(rows)] : n \in 0 .. MaxRequested} :
        \A i, j \in 1 .. Len(r) : i /= j => r[i] /= r[j]}

InitSamples ==
    /\ \E m \in BatchSizes :
          \E molecules \in [1 .. m -> Molecules] :
             \E tagged \in TaggedPairListsOf(m, MoleculePairs) :
                /\ \A n \in 1 .. Len(tagged) :
                      /\ tagged[n][2].first < Len(molecules[tagged[n][1]])
                      /\ tagged[n][2].second < Len(molecules[tagged[n][1]])
                /\ systems = Batch(m, molecules, tagged)
    /\ CalculatorIdle
    /\ foreign = NoForeign
    /\ builder = NoBuilder
    /\ descriptor = Descriptor_new

\* StructureSpeciesSamples.indexes(systems)
StructureIndexes ==
    /\ builder.stage = "none"
    /\ builder' = [builder EXCEPT
            !.kind = "StructureSpeciesSamples",
            !.indexes = StructureSpeciesSamples_indexes(systems),
            !.stage = "indexes"]
    /\ UNCHANGED calculator_vars
    /\ UNCHANGED <<foreign, descriptor>>

\* StructureSpeciesSamples.gradients_for(systems, samples)
StructureGradientsFor ==
    /\ builder.stage = "indexes"
    /\ builder.kind = "StructureSpeciesSamples"
    /\ \E requested \in Requests(builder.indexes) :
          builder' = [builder EXCEPT
            !.requested = requested,
            !.gradients = StructureSpeciesSamples_gradients_for(systems, requested),
            !.stage = "gradients"]
    /\ UNCHANGED calculator_vars
    /\ UNCHANGED <<foreign, descriptor>>

\* AtomSpeciesSamples::new(cutoff) or with_self_contribution(cutoff), then
\* indexes(systems)
AtomIndexes ==
    /\ builder.stage = "none"
    /\ \E self_contribution \in BOOLEAN :
          builder' = [builder EXCEPT
            !.kind = "AtomSpeciesSamples",
            !.self_contribution = self_contribution,
            !.indexes = AtomSpeciesSamples_indexes(systems, self_contribution),
            !.stage = "indexes"]
    /\ UNCHANGED calculator_vars
    /\ UNCHANGED <<foreign, descriptor>>

\* AtomSpeciesSamples.gradients_for(systems, samples)
AtomGradientsFor ==
    /\ builder.stage = "indexes"
    /\ builder.kind = "AtomSpeciesSamples"
    /\ \E requested \in Requests(builder.indexes) :
          builder' = [builder EXCEPT
            !.requested = requested,
            !.gradients = AtomSpeciesSamples_gradients_for(systems, requested),
            !.stage = "gradients"]
    /\ UNCHANGED calculator_vars
    /\ UNCHANGED <<foreign, descriptor>>

\* ThreeBodiesSpeciesSamples::new(cutoff) or with_self_contribution(cutoff),
\* then indexes(systems)
ThreeBodiesIndexes ==
    /\ builder.stage = "none"
    /\ \E self_contribution \in BOOLEAN :
          builder' = [builder EXCEPT
            !.kind = "ThreeBodiesSpeciesSamples",
            !.self_contribution = self_contribution,
            !.indexes = ThreeBodiesSpeciesSamples_indexes(systems, self_contribution),
            !.stage = "indexes"]
    /\ UNCHANGED calculator_vars
    /\ UNCHANGED <<foreign, descriptor>>

\* ThreeBodiesSpeciesSamples.gradients_for(systems, samples)
ThreeBodiesGradientsFor ==
    /\ builder.stage = "indexes"
    /\ builder.kind = "ThreeBodiesSpeciesSamples"
    /\ \E requested \in Requests(builder.indexes) :
          builder' = [builder EXCEPT
            !.requested = requested,
            !.gradients = ThreeBodiesSpeciesSamples_gradients_for(systems, requested),
            !.stage = "gradients"]
    /\ UNCHANGED calculator_vars
    /\ UNCHANGED <<foreign, descriptor>>

NextSamples ==
    \/ StructureIndexes
    \/ StructureGradientsFor
    \/ AtomIndexes
    \/ AtomGradientsFor
    \/ ThreeBodiesIndexes
    \/ ThreeBodiesGradientsFor

SpecSamples == InitSamples /\ [][NextSamples]_vars

----------------------------------------------------------------------------
(* The Descriptor (rascaline/src/descriptor/descriptor.rs).  Indexes are     *)
(* [names, rows]; an Array2 is [shape, data] with the data in row-major      *)
(* order, as in the raw vector of a standard layout ndarray.                 *)

\* Array2::zeros(shape) and Array2::from_elem(shape, 0.0)
Array2_zeros(shape) ==
    [shape |-> shape, data |-> [i \in 1 .. (shape[1] * shape[2]) |-> 0]]

\* array[[row, col]], row and col 0-based
At(array, row, col) == array.data[row * array.shape[2] + col + 1]

\* Vec::resize(new_len, 0): the vector is truncated, or extended with 0; the
\* elements it keeps are not touched
Vec_resize(data, new_len) ==
    IF Len(data) >= new_len THEN SubSeq(data, 1, new_len)
    ELSE data \o [i \in 1 .. (new_len - Len(data)) |-> 0]

\* resize_and_reset: the raw vector of the array is resized and becomes the
\* data of an array of the new shape
resize_and_reset(array, shape) ==
    [shape |-> shape, data |-> Vec_resize(array.data, shape[1] * shape[2])]

\* Descriptor::prepare
Descriptor_prepare(self, environments, features) ==
    [self EXCEPT
        !.environments = environments,
        !.features = features,
        !.values = resize_and_reset(self.values,
                        <<Len(environments.rows), Len(features.rows)>>),
        !.gradients = [some |-> FALSE, shape |-> <<0, 0>>, data |-> <<>>],
        !.gradients_indexes = [some |-> FALSE,
                               indexes |-> [names |-> <<>>, rows |-> <<>>]]]

\* Descriptor::prepare_gradients
Descriptor_prepare_gradients(self, environments, gradients, features) ==
    IF Len(gradients.names) = 0
       \/ gradients.names[Len(gradients.names)] /= "spatial"
    THEN [self EXCEPT !.panicked = "the last index of gradient should be spatial"]
    ELSE LET gradient_shape == <<Len(gradients.rows), Len(features.rows)>>
             array == IF self.gradients.some
                      THEN resize_and_reset(self.gradients, gradient_shape)
                      ELSE Array2_zeros(gradient_shape)
         IN [self EXCEPT
                !.environments = environments,
                !.features = features,
                !.values = resize_and_reset(self.values,
                                <<Len(environments.rows), Len(features.rows)>>),
                !.gradients_indexes = [some |-> TRUE, indexes |-> gradients],
                !.gradients = [some |-> TRUE, shape |-> array.shape,
                               data |-> array.data]]

\* Iterator::position: index (0-based) of the first element equal to value
iter_position(s, value) ==
    (CHOOSE n \in 1 .. Len(s) :
        s[n] = value /\ \A k \in 1 .. (n - 1) : s[k] /= value) - 1

\* a row without its column variable_i (1-based)
Cleaned(index, variable_i) ==
    SubSeq(index, 1, variable_i - 1) \o SubSeq(index, variable_i + 1, Len(index))

\* remove_from_indexes: the loop over the first n rows.  The mapping is a
\* BTreeMap: inserting at a key already there replaces the value
RECURSIVE remove_from_indexes_loop(_, _, _)
remove_from_indexes_loop(rows, variable_i, n) ==
    IF n = 0
    THEN [new_indexes |-> <<>>, new_features |-> <<>>,
          mapping |-> [k \in {} |-> 0]]
    ELSE LET before == remove_from_indexes_loop(rows, variable_i, n - 1)
             index == rows[n]
             new_features == IndexSet_insert(before.new_features, index[variable_i])
             new_indexes == IndexSet_insert(before.new_indexes,
                                            Cleaned(index, variable_i))
             densified == [environment |-> Len(new_indexes) - 1,
                           feature_block |-> iter_position(new_features,
                                                           index[variable_i])]
         IN [new_indexes |-> new_indexes,
             new_features |-> new_features,
             mapping |-> [k \in DOMAIN before.mapping \cup {densified} |->
                            IF k = densified THEN n - 1 ELSE before.mapping[k]]]

\* remove_from_indexes
remove_from_indexes(indexes, variable) ==
    IF variable \notin Range(indexes.names)
    THEN [panicked |-> TRUE,
          indexes |-> indexes, new_features |-> <<>>,
          mapping |-> [k \in {} |-> 0]]
    ELSE LET variable_i == iter_position(indexes.names, variable) + 1
             result == remove_from_indexes_loop(indexes.rows, variable_i,
                                                Len(indexes.rows))
         IN [panicked |-> FALSE,
             indexes |-> [names |-> Cleaned(indexes.names, variable_i),
                          rows |-> result.new_indexes],
             new_features |-> result.new_features,
             mapping |-> result.mapping]

\* Descriptor::densify, the copy of the values: an array of zeros, then for
\* every (new, old) of the mapping the row `old` is assigned to the columns
\* of the block new.feature_block of the row new.environment
densify_copy(array, mapping, shape, old_feature_size) ==
    [shape |-> shape,
     data |-> [i \in 1 .. (shape[1] * shape[2]) |->
        LET row == (i - 1) \div shape[2]
            col == (i - 1) % shape[2]
            new == [environment |-> row,
                    feature_block |-> col \div old_feature_size]
        IN IF new \in DOMAIN mapping
           THEN At(array, mapping[new], col % old_feature_size)
           ELSE 0]]

\* Descriptor::densify
Descriptor_densify(self, variable) ==
    LET new_environments == remove_from_indexes(self.environments, variable)
        new_gradients == remove_from_indexes(self.gradients_indexes.indexes, variable)
        new_features ==
            [names |-> <<variable>> \o self.features.names,
             rows |-> ConcatAll([b \in 1 .. Len(new_environments.new_features) |->
                        [f \in 1 .. Len(self.features.rows) |->
                            <<new_environments.new_features[b]>>
                                \o self.features.rows[f]]])]
        old_feature_size == Len(self.features.rows)
        new_values == densify_copy(self.values, new_environments.mapping,
                        <<Len(new_environments.indexes.rows), Len(new_features.rows)>>,
                        old_feature_size)
        gradients == densify_copy(self.gradients, new_gradients.mapping,
                        <<Len(new_gradients.indexes.rows), Len(new_features.rows)>>,
                        old_feature_size)
    IN IF new_environments.panicked
       THEN [self EXCEPT !.panicked = "can not densify along a variable which is not present"]
       ELSE IF self.gradients_indexes.some /\ new_gradients.panicked
       THEN [self EXCEPT !.panicked = "can not densify along a variable which is not present"]
       ELSE IF self.gradients_indexes.some
               \* IndexSet != IndexSet: the same values, in any order
               /\ Range(new_gradients.new_features)
                    /= Range(new_environments.new_features)
       THEN [self EXCEPT !.panicked = "gradient indexes contains a different values"]
       ELSE IF self.gradients.some /\ ~self.gradients_indexes.some
       THEN [self EXCEPT !.panicked = "missing densified gradients"]
       ELSE [self EXCEPT
                !.gradients = IF self.gradients.some
                              THEN [some |-> TRUE, shape |-> gradients.shape,
                                    data |-> gradients.data]
                              ELSE @,
                !.gradients_indexes = IF self.gradients.some
                                      THEN [some |-> TRUE,
                                            indexes |-> new_gradients.indexes]
                                      ELSE @,
                !.features = new_features,
                !.environments = new_environments.indexes,
                !.values = new_values]

\* The environments, features and gradients given to a descriptor: rows
\* <<structure, species>> for CH (structure 0) and a H atom (structure 1),
\* each once, in any order
EnvironmentRows == {<<0, 1>>, <<0, 6>>, <<1, 1>>}

EnvironmentsInputs ==
    {[names |-> <<"structure", "species">>, rows |-> rows] :
        rows \in {r \in UNION {[1 .. n -> EnvironmentRows] : n \in 0 .. MaxEnvironments} :
                    \A i, j \in 1 .. Len(r) : i /= j => r[i] /= r[j]}}

FeaturesInputs ==
    {[names |-> <<"n">>, rows |-> <<<<0>>>>],
     [names |-> <<"n">>, rows |-> <<<<0>>, <<1>>>>]}

\* gradient rows: for the environments after the first k ones (the first
\* ones have no neighbor), the three directions of the gradient with respect
\* to one atom
GradientsInputs(environments) ==
    {[names |-> <<"structure", "species", "atom", "spatial">>,
      rows |-> ConcatAll([n \in 1 .. (Len(environments.rows) - k) |->
                    Spatial(Append(environments.rows[k + n], 0))])] :
        k \in 0 .. Len(environments.rows)}

\* the values a calculator writes: a different non-zero value in every entry
Filled(array) == [array EXCEPT !.data = [i \in 1 .. Len(array.data) |-> i]]

InitDescriptor ==
    /\ CalculatorUnused
    /\ foreign = NoForeign
    /\ builder = NoBuilder
    /\ descriptor = Descriptor_new

\* descriptor.prepare(environments, features)
Prepare ==
    /\ descriptor.panicked = "none"
    /\ \E environments \in EnvironmentsInputs :
          \E features \in FeaturesInputs :
             descriptor' = [Descriptor_prepare(descriptor, environments, features)
                                EXCEPT !.stage = "prepared"]
    /\ UNCHANGED calculator_vars
    /\ UNCHANGED <<foreign, builder>>

\* descriptor.prepare_gradients(environments, gradients, features)
PrepareGradients ==
    /\ descriptor.panicked = "none"
    /\ \E environments \in EnvironmentsInputs :
          \E features \in FeaturesInputs :
             \E gradients \in GradientsInputs(environments) :
                descriptor' = [Descriptor_prepare_gradients(
                                    descriptor, environments, gradients, features)
                                    EXCEPT !.stage = "prepared"]
    /\ UNCHANGED calculator_vars
    /\ UNCHANGED <<foreign, builder>>

\* the calculator fills the arrays of a prepared descriptor
Fill ==
    /\ descriptor.panicked = "none"
    /\ descriptor.stage = "prepared"
    /\ descriptor' = [descriptor EXCEPT
            !.values = Filled(@),
            !.gradients = IF @.some THEN Filled(@) ELSE @,
            !.stage = "filled"]
    /\ UNCHANGED calculator_vars
    /\ UNCHANGED <<foreign, builder>>

\* descriptor.densify(variable)
Densify ==
    /\ descriptor.panicked = "none"
    /\ \E variable \in {"structure", "species"} :
          LET densified == Descriptor_densify(descriptor, variable)
          IN descriptor' = IF densified.panicked = "none"
                           THEN [densified EXCEPT !.stage = "densified"]
                           ELSE densified
    /\ UNCHANGED calculator_vars
    /\ UNCHANGED <<foreign, builder>>

NextDescriptor ==
    \/ Prepare
    \/ PrepareGradients
    \/ Fill
    \/ Densify

SpecDescriptor == InitDescriptor /\ [][NextDescriptor]_vars

----------------------------------------------------------------------------
(* Vocabulary of the properties, stated on the systems directly *)

\* the <<system, pair>> positions of the batch (1-based)
Reported ==
    UNION {{<<s, k>> : k \in 1 .. Len(systems[s].pairs)} : s \in 1 .. Len(systems)}

PairAt(p) == systems[p[1]].pairs[p[2]]
FirstSpecies(p) == systems[p[1]].species[PairAt(p).first + 1]
SecondSpecies(p) == systems[p[1]].species[PairAt(p).second + 1]

Smaller(a, b) == IF a <= b THEN a ELSE b
Larger(a, b) == IF a <= b THEN b ELSE a

Negated(v) == <<0 - v[1], 0 - v[2], 0 - v[3]>>

\* the sample rows of the two orientations of a pair
ForwardRow(p) == <<p[1] - 1, p[2] - 1, PairAt(p).first, PairAt(p).second>>
BackwardRow(p) == <<p[1] - 1, p[2] - 1, PairAt(p).second, PairAt(p).first>>

\* strictly ascending sequence of rows, for the lexicographic order on the
\* first two columns
AscendingOnTwo(rows) ==
    \A n \in 1 .. (Len(rows) - 1) :
        \/ rows[n][1] < rows[n + 1][1]
        \/ rows[n][1] = rows[n + 1][1] /\ rows[n][2] < rows[n + 1][2]

\* <<block, row index>> of the rows of the pair at position p
AllRows ==
    UNION {{<<b, n>> : n \in 1 .. Len(samples[b])} : b \in 1 .. Len(samples)}

RowsOf(p) ==
    {br \in AllRows :
        /\ samples[br[1]][br[2]][1] = p[1] - 1
        /\ samples[br[1]][br[2]][2] = p[2] - 1}

\* <<block, row index>> of a given row in the block of a given key
Places(key, row) ==
    {br \in AllRows :
        /\ keys[br[1]] = key
        /\ samples[br[1]][br[2]] = row}

KeysReturned == pc \in {"KeysBuilt", "SamplesBuilt", "Allocated", "Filled"}
SamplesReturned == pc \in {"SamplesBuilt", "Allocated", "Filled"}

----------------------------------------------------------------------------
(* Compute over a selection of the samples *)

\* The caller selects a subset of the sample rows: the driver keeps, in
\* every block, only the selected rows of the samples of the calculator, in
\* their order, before it allocates the blocks.
SelectSamples ==
    /\ pc = "SamplesBuilt"
    /\ \E selected \in SUBSET AllRows :
          /\ selected /= AllRows
          /\ samples' = [b \in 1 .. Len(samples) |->
                SelectSeq(samples[b],
                    LAMBDA row : \E br \in selected :
                        br[1] = b /\ samples[b][br[2]] = row)]
    /\ UNCHANGED <<systems, cutoff, full_neighbor_list, pc, panic, error, failing,
                   keys, values, gradient, written, previous>>
    /\ UNCHANGED besides_calculator

\* single system batches, and a cutoff keys() and samples() accept
InitPartial ==
    /\ InitCalculator({1}, {Finite(2)})
    /\ foreign = NoForeign
    /\ builder = NoBuilder
    /\ descriptor = Descriptor_new

NextPartial == Keys \/ Samples \/ SelectSamples \/ Allocate \/ Compute

SpecPartial == InitPartial /\ [][NextPartial]_vars

----------------------------------------------------------------------------
\* C1: the keys of the half list are exactly the sorted species pairs
\* (min, max) of the pairs of all systems, each once, in ascending
\* lexicographic order.
C1_HalfKeys ==
    (KeysReturned /\ ~full_neighbor_list) =>
        /\ Range(keys) = {<<Smaller(FirstSpecies(p), SecondSpecies(p)),
                            Larger(FirstSpecies(p), SecondSpecies(p))>> : p \in Reported}
        /\ AscendingOnTwo(keys)

C1_Witness ==
    /\ pc = "KeysBuilt"
    /\ ~full_neighbor_list
    /\ keys = << <<-42, 1>>, <<1, 1>> >>
    /\ \E p \in Reported : FirstSpecies(p) > SecondSpecies(p)

\* C2: the keys of the full list are exactly both orientations of the species
\* of every pair, each once, in ascending lexicographic order, and the set
\* of keys is closed under swapping the two columns.
C2_FullKeys ==
    (KeysReturned /\ full_neighbor_list) =>
        /\ Range(keys) =
              {<<FirstSpecies(p), SecondSpecies(p)>> : p \in Reported} \cup
              {<<SecondSpecies(p), FirstSpecies(p)>> : p \in Reported}
        /\ AscendingOnTwo(keys)
        /\ \A n \in 1 .. Len(keys) :
              \E m \in 1 .. Len(keys) : keys[m] = <<keys[n][2], keys[n][1]>>

C2_Witness ==
    /\ pc = "KeysBuilt"
    /\ full_neighbor_list
    /\ keys = << <<-42, 1>>, <<1, -42>>, <<1, 1>> >>

\* C3: the samples of the half list hold every pair in exactly one row of
\* exactly one block, the block of its sorted species pair; the atoms are
\* swapped iff species[first] > species[second]; every row has
\* species(first_atom) <= species(second_atom); rows are ordered by system
\* then pair.
C3_HalfSamples ==
    ~full_neighbor_list =>
        /\ panic /= "duplicate sample row"
        /\ SamplesReturned =>
            /\ Len(samples) = Len(keys)
            /\ \A p \in Reported :
                  LET swap == FirstSpecies(p) > SecondSpecies(p)
                      key == <<Smaller(FirstSpecies(p), SecondSpecies(p)),
                               Larger(FirstSpecies(p), SecondSpecies(p))>>
                      row == IF swap THEN BackwardRow(p) ELSE ForwardRow(p)
                  IN /\ Cardinality(RowsOf(p)) = 1
                     /\ RowsOf(p) = Places(key, row)
            /\ \A b \in 1 .. Len(samples) :
                  /\ AscendingOnTwo(samples[b])
                  /\ \A n \in 1 .. Len(samples[b]) :
                        LET row == samples[b][n]
                        IN /\ <<row[1] + 1, row[2] + 1>> \in Reported
                           /\ systems[row[1] + 1].species[row[3] + 1]
                                <= systems[row[1] + 1].species[row[4] + 1]

C3_Witness ==
    /\ pc = "SamplesBuilt"
    /\ ~full_neighbor_list
    /\ \E p, q \in Reported :
          /\ FirstSpecies(p) > SecondSpecies(p)
          /\ FirstSpecies(q) < SecondSpecies(q)
          /\ RowsOf(p) /= {} /\ RowsOf(q) /= {}

\* C4: the samples of the full list hold, for every pair with
\* first /= second, exactly two rows: (s, k, first, second) in the block
\* (species[first], species[second]) and (s, k, second, first) in the block
\* (species[second], species[first]), adjacent and in that order when the
\* species are equal; a self pair has exactly one row; there is no other row.
C4_FullSamples ==
    full_neighbor_list =>
        /\ panic /= "duplicate sample row"
        /\ SamplesReturned =>
            /\ Len(samples) = Len(keys)
            /\ \A p \in Reported :
                  LET forward == Places(<<FirstSpecies(p), SecondSpecies(p)>>, ForwardRow(p))
                      backward == Places(<<SecondSpecies(p), FirstSpecies(p)>>, BackwardRow(p))
                  IN IF PairAt(p).first /= PairAt(p).second
                     THEN /\ Cardinality(RowsOf(p)) = 2
                          /\ Cardinality(forward) = 1
                          /\ Cardinality(backward) = 1
                          /\ RowsOf(p) = forward \cup backward
                          /\ FirstSpecies(p) = SecondSpecies(p) =>
                                \A f \in forward : \A g \in backward :
                                    g[1] = f[1] /\ g[2] = f[2] + 1
                     ELSE /\ Cardinality(RowsOf(p)) = 1
                          /\ RowsOf(p) = forward
            /\ \A b \in 1 .. Len(samples) : \A n \in 1 .. Len(samples[b]) :
                  <<samples[b][n][1] + 1, samples[b][n][2] + 1>> \in Reported

C4_Witness ==
    /\ pc = "SamplesBuilt"
    /\ full_neighbor_list
    /\ \E p, q \in Reported :
          /\ PairAt(p).first /= PairAt(p).second
          /\ FirstSpecies(p) = SecondSpecies(p)
          /\ Cardinality(RowsOf(p)) = 2
          /\ PairAt(q).first = PairAt(q).second
          /\ Cardinality(RowsOf(q)) = 1

\* <<key, sample row, value>> of every row of a descriptor
Entries(desc) ==
    UNION {{<<desc.keys[b], desc.samples[b][n], desc.values[b][n]>> :
                n \in 1 .. Len(desc.samples[b])} : b \in 1 .. Len(desc.samples)}

MinusIdentity == <<<<-1, 0, 0>>, <<0, -1, 0>>, <<0, 0, -1>>>>
PlusIdentity == <<<<1, 0, 0>>, <<0, 1, 0>>, <<0, 0, 1>>>>
AllZero == <<<<0, 0, 0>>, <<0, 0, 0>>, <<0, 0, 0>>>>

\* C5: the half list inverts a pair iff species[first] > species[second],
\* never when the species are equal; after compute the row of the pair holds
\* pair.vector when not inverted and -pair.vector, with the atoms swapped,
\* when inverted.
C5_HalfValues ==
    (pc = "Filled" /\ ~full_neighbor_list) =>
        \A p \in Reported :
            LET a == FirstSpecies(p)
                b == SecondSpecies(p)
                inverted == a > b
                key == IF inverted THEN <<b, a>> ELSE <<a, b>>
                row == IF inverted THEN BackwardRow(p) ELSE ForwardRow(p)
            IN /\ sort_pair(a, b) = <<key, inverted>>
               /\ Places(key, row) /= {}
               /\ \A br \in Places(key, row) :
                     values[br[1]][br[2]] =
                        IF inverted THEN Negated(PairAt(p).vector) ELSE PairAt(p).vector

C5_Witness ==
    /\ pc = "Filled"
    /\ ~full_neighbor_list
    /\ \E p, q \in Reported :
          /\ FirstSpecies(p) > SecondSpecies(p)
          /\ \E br \in Places(<<SecondSpecies(p), FirstSpecies(p)>>, BackwardRow(p)) :
                values[br[1]][br[2]] = Negated(PairAt(p).vector)
          /\ FirstSpecies(q) = SecondSpecies(q)
          /\ PairAt(q).first > PairAt(q).second
          /\ \E br \in Places(<<FirstSpecies(q), SecondSpecies(q)>>, ForwardRow(q)) :
                values[br[1]][br[2]] = PairAt(q).vector

\* C6: after a full list compute, for every pair with first /= second the
\* value of the row (s, k, second, first) in the block (species[second],
\* species[first]) is the negation, component by component, of the value of
\* the row (s, k, first, second) in the block (species[first],
\* species[second]).
C6_Antisymmetry ==
    (pc = "Filled" /\ full_neighbor_list) =>
        \A p \in Reported :
            PairAt(p).first /= PairAt(p).second =>
                LET forward == Places(<<FirstSpecies(p), SecondSpecies(p)>>, ForwardRow(p))
                    backward == Places(<<SecondSpecies(p), FirstSpecies(p)>>, BackwardRow(p))
                IN /\ forward /= {}
                   /\ backward /= {}
                   /\ \A f \in forward : \A g \in backward :
                         \A d \in 1 .. 3 :
                            values[g[1]][g[2]][d] = 0 - values[f[1]][f[2]][d]

C6_Witness ==
    /\ pc = "Filled"
    /\ full_neighbor_list
    /\ \E p \in Reported :
          /\ PairAt(p).first /= PairAt(p).second
          /\ FirstSpecies(p) /= SecondSpecies(p)
          /\ \E f \in Places(<<FirstSpecies(p), SecondSpecies(p)>>, ForwardRow(p)) :
                values[f[1]][f[2]] = PairAt(p).vector
          /\ \E g \in Places(<<SecondSpecies(p), FirstSpecies(p)>>, BackwardRow(p)) :
                values[g[1]][g[2]] = Negated(PairAt(p).vector)

\* C7: for the same systems, every entry (key, sample row, value) of the
\* half list is an entry of the full list; every entry of the full list is
\* an entry of the half list, or the negation, with atoms and key columns
\* swapped, of the half list entry of the same (system, pair).
HalfFullConsistent(half, full) ==
    /\ \A h \in half : h \in full
    /\ \A f \in full :
          \E h \in half :
             /\ h[2][1] = f[2][1]
             /\ h[2][2] = f[2][2]
             /\ \/ h = f
                \/ /\ h[1] = <<f[1][2], f[1][1]>>
                   /\ h[2][3] = f[2][4]
                   /\ h[2][4] = f[2][3]
                   /\ h[3] = Negated(f[3])

C7_HalfFull ==
    pc = "Filled" =>
        IF full_neighbor_list
        THEN HalfFullConsistent(Entries(NeighborList_run(FALSE, systems)),
                                Entries(Descriptor))
        ELSE HalfFullConsistent(Entries(Descriptor),
                                Entries(NeighborList_run(TRUE, systems)))

C7_Witness ==
    /\ pc = "Filled"
    /\ full_neighbor_list
    /\ Cardinality(Entries(Descriptor)) = 4
    /\ Cardinality(Entries(NeighborList_run(FALSE, systems))) = 2
    /\ \E p \in Reported : FirstSpecies(p) > SecondSpecies(p)

\* C8: when the positions gradient is requested, every sample row of every
\* block (self pairs included) gets exactly two non zero gradient rows: -1 on
\* the diagonal for first_atom, +1 on the diagonal for second_atom; every
\* other gradient entry is zero.
C8_GradientCompleteness ==
    /\ panic \notin {"duplicate gradient sample row", "missing gradient sample"}
    /\ (pc = "Filled" /\ gradient.present) =>
          \A br \in AllRows :
             LET b == br[1]
                 row == samples[b][br[2]]
                 mine == {g \in 1 .. Len(gradient.samples[b]) :
                             gradient.samples[b][g][1] = br[2] - 1}
                 nonzero == {g \in mine : gradient.data[b][g] /= AllZero}
             IN /\ Cardinality(nonzero) = 2
                /\ \E g, h \in nonzero :
                      /\ g /= h
                      /\ gradient.samples[b][g] = <<br[2] - 1, row[1], row[3]>>
                      /\ gradient.data[b][g] = MinusIdentity
                      /\ gradient.samples[b][h] = <<br[2] - 1, row[1], row[4]>>
                      /\ gradient.data[b][h] = PlusIdentity

\* the same without the self pairs (not a claim: the part of C8 the code has)
GradientCompletenessNoSelfPair ==
    (\A p \in Reported : PairAt(p).first /= PairAt(p).second) => C8_GradientCompleteness

\* C9: with the keys of keys(), compute never reaches expect("missing
\* block"), and the species of first_atom and second_atom of every sample
\* row are the two columns of the key of its block.
C9_KeyCoverage ==
    /\ panic /= "missing block"
    /\ SamplesReturned =>
          \A br \in AllRows :
             LET row == samples[br[1]][br[2]]
             IN /\ systems[row[1] + 1].species[row[3] + 1] = keys[br[1]][1]
                /\ systems[row[1] + 1].species[row[4] + 1] = keys[br[1]][2]

C9_Witness ==
    /\ pc = "Filled"
    /\ full_neighbor_list
    /\ panic = "none"
    /\ Len(keys) = 3
    /\ \E p \in Reported : FirstSpecies(p) > SecondSpecies(p)

\* C10: the half list calculator returns the same keys, sample rows and
\* values when the neighbor list implementation reports pairs in the other
\* orientation.
C10_SameAfterChange ==
    (pc = "Filled" /\ previous.present) =>
        /\ keys = previous.keys
        /\ samples = previous.samples
        /\ values = previous.values

\* the same for the pairs of two different species (not a claim: the part of
\* C10 the code has)
SameAfterChangeDifferentSpecies ==
    (\A p \in Reported : FirstSpecies(p) /= SecondSpecies(p)) => C10_SameAfterChange

----------------------------------------------------------------------------
\* C11: when the blocks hold only a subset, chosen by the caller, of the
\* sample rows, compute (half and full) never panics on an absent row and
\* adds no row; every present row holds the value it holds after a compute
\* over all the samples, which is the vector of its pair in the orientation
\* of the row; the gradient rows of a present row hold -1 on the diagonal
\* for its first atom and +1 for its second atom.
C11_Partial ==
    /\ panic \notin {"missing block", "missing sample", "missing gradient sample"}
    /\ pc = "Filled" =>
        /\ Len(values) = Len(samples)
        /\ \A b \in 1 .. Len(samples) : Len(values[b]) = Len(samples[b])
        /\ Entries(Descriptor)
              \subseteq Entries(NeighborList_run(full_neighbor_list, systems))
        /\ \A br \in AllRows :
              LET row == samples[br[1]][br[2]]
                  p == <<row[1] + 1, row[2] + 1>>
              IN /\ p \in Reported
                 /\ row \in {ForwardRow(p), BackwardRow(p)}
                 /\ values[br[1]][br[2]] =
                       IF row = ForwardRow(p) THEN PairAt(p).vector
                       ELSE Negated(PairAt(p).vector)
        /\ gradient.present =>
              \A b \in 1 .. Len(gradient.samples) :
                 \A g \in 1 .. Len(gradient.samples[b]) :
                    LET grad_row == gradient.samples[b][g]
                        row == samples[b][grad_row[1] + 1]
                    IN gradient.data[b][g] =
                          IF grad_row[3] = row[3] THEN MinusIdentity
                          ELSE PlusIdentity

\* a compute over a selection that holds the row of one pair and not the
\* row of another one, with gradients
C11_Witness ==
    /\ pc = "Filled"
    /\ gradient.present
    /\ \E p, q \in Reported :
          /\ RowsOf(p) /= {}
          /\ RowsOf(q) = {}
          /\ \A br \in RowsOf(p) : values[br[1]][br[2]] /= <<0, 0, 0>>

----------------------------------------------------------------------------
\* C12: a failing compute leaves the descriptor untouched: when the
\* neighbor list of a system of the batch fails, every value and every
\* gradient entry is the one of the allocation, also for the systems that
\* come before the failing one.
C12_FailedComputeUntouched ==
    pc = "Failed" =>
        /\ values = ZeroValues(samples)
        /\ gradient.present => gradient = ZeroGradient(gradient.samples)

\* what holds instead: the rows of the systems that come before the failing
\* one are filled, the rows of the failing system and of the ones after it
\* are not
FailedComputePartlyFilled ==
    (pc = "Failed" /\ Len(values) = Len(samples)) =>
        \A br \in AllRows :
            LET row == samples[br[1]][br[2]]
            IN IF row[1] + 1 < failing
               THEN values[br[1]][br[2]] /= <<0, 0, 0>>
               ELSE values[br[1]][br[2]] = <<0, 0, 0>>

----------------------------------------------------------------------------
\* a cutoff that is not a positive finite number
InvalidCutoff == cutoff.class /= "finite" \/ cutoff.value <= 0

\* a call of keys() or of samples()
KeysOrSamplesCalled ==
    \/ pc = "Idle" /\ pc' /= "Idle"
    \/ pc = "KeysBuilt" /\ pc' /= "KeysBuilt"

\* C13: keys() and samples() called with a non-positive or non-finite
\* cutoff return the recoverable error InvalidParameter to the caller.
C13_InvalidParameter ==
    [][(KeysOrSamplesCalled /\ InvalidCutoff) =>
            (pc' = "Failed" /\ error' = "InvalidParameter" /\ panic' = "none")]_vars

\* C13, amended: keys() and samples() called with a non-positive or
\* non-finite cutoff (zero, negative, NaN, infinite) panic on their
\* assertion: the call is aborted, no error value is returned and no label
\* is built; with a positive finite cutoff the assertion never fails.
C13_CutoffAssertion ==
    [][KeysOrSamplesCalled =>
            IF InvalidCutoff
            THEN /\ pc' = "Aborted"
                 /\ panic' = "assertion failed"
                 /\ error' = "none"
                 /\ keys' = keys
                 /\ samples' = samples
            ELSE panic' /= "assertion failed"]_vars

\* samples() aborted on the assertion, for a cutoff that became NaN after
\* keys() had built two keys
C13_Witness ==
    /\ pc = "Aborted"
    /\ panic = "assertion failed"
    /\ error = "none"
    /\ cutoff = NaN
    /\ Len(keys) = 2

----------------------------------------------------------------------------
\* C14: an operation of a rascal_system_t whose function pointer is NULL
\* signals "unsupported operation" as a recoverable error when it is called,
\* rather than crashing.
C14_UnsupportedOperation ==
    \A op \in Operations :
        (foreign.called = op /\ ~foreign.vtable[op]) =>
            /\ foreign.outcome = "error"
            /\ foreign.message = "unsupported operation"

\* what holds instead: the call panics with the message of expect
NullPointerPanics ==
    \A op \in Operations :
        (foreign.called = op /\ ~foreign.vtable[op]) =>
            /\ foreign.outcome = "panicked"
            /\ foreign.message = NullMessage[op]

----------------------------------------------------------------------------
(* Vocabulary of the properties of the samples builders *)

\* the atoms of the system s (1-based s, 0-based atoms)
AtomsOf(s) == 0 .. (Len(systems[s].species) - 1)
SpeciesAt(s, c) == systems[s].species[c + 1]

\* the pairs of the system s that contain the atom c, and their other end
Touching(s, c) ==
    {p \in Reported : p[1] = s /\ (PairAt(p).first = c \/ PairAt(p).second = c)}
Far(p, c) == IF PairAt(p).first = c THEN PairAt(p).second ELSE PairAt(p).first

StrictlyAscending(rows) ==
    \A n \in 1 .. (Len(rows) - 1) : LexLess(rows[n], rows[n + 1])

DuplicateFree(rows) == Cardinality(Range(rows)) = Len(rows)

\* a gradient row without its last column
SampleOf(grad_row) == SubSeq(grad_row, 1, Len(grad_row) - 1)

\* rows come three by three: the same sample with spatial 0, 1, 2
ThreeByThree(rows) ==
    /\ Len(rows) % 3 = 0
    /\ \A n \in 1 .. Len(rows) :
          /\ rows[n][Len(rows[n])] = (n - 1) % 3
          /\ (n - 1) % 3 /= 0 => SampleOf(rows[n]) = SampleOf(rows[n - 1])

\* the rows of a request are met in the order of the request: first is the
\* number of columns a gradient row shares with its sample row
FollowsRequest(rows, requested, first) ==
    \A x, y \in 1 .. Len(rows) :
        x < y =>
            \A i, j \in 1 .. Len(requested) :
                (/\ SubSeq(rows[x], 1, first) = requested[i]
                 /\ SubSeq(rows[y], 1, first) = requested[j]) => i <= j

IndexesBuilt(kind) ==
    builder.kind = kind /\ builder.stage \in {"indexes", "gradients"}
GradientsBuilt(kind) == builder.kind = kind /\ builder.stage = "gradients"

----------------------------------------------------------------------------
\* C15: AtomSpeciesSamples.indexes returns exactly the rows
\* (s, first, species[first], species[second]) and
\* (s, second, species[second], species[first]) of all pairs, plus
\* (s, c, species[c], species[c]) for every atom with self_contribution, so
\* that every atom has a row then; the rows are duplicate-free and in
\* ascending lexicographic order.
C15_AtomIndexes ==
    IndexesBuilt("AtomSpeciesSamples") =>
        /\ Range(builder.indexes) =
              {<<p[1] - 1, PairAt(p).first, FirstSpecies(p), SecondSpecies(p)>> :
                    p \in Reported}
              \cup {<<p[1] - 1, PairAt(p).second, SecondSpecies(p), FirstSpecies(p)>> :
                    p \in Reported}
              \cup (IF builder.self_contribution
                    THEN UNION {{<<s - 1, c, SpeciesAt(s, c), SpeciesAt(s, c)>> :
                                    c \in AtomsOf(s)} : s \in 1 .. Len(systems)}
                    ELSE {})
        /\ DuplicateFree(builder.indexes)
        /\ StrictlyAscending(builder.indexes)
        /\ builder.self_contribution =>
              \A s \in 1 .. Len(systems) : \A c \in AtomsOf(s) :
                 \E n \in 1 .. Len(builder.indexes) :
                    builder.indexes[n][1] = s - 1 /\ builder.indexes[n][2] = c

\* two systems, with self contribution: an atom without neighbor has its
\* row, an atom with two neighbors of the same species has one row for them
C15_Witness ==
    /\ IndexesBuilt("AtomSpeciesSamples")
    /\ builder.self_contribution
    /\ Len(systems) = 2
    /\ \E s \in 1 .. Len(systems) : \E c \in AtomsOf(s) :
          /\ Touching(s, c) = {}
          /\ <<s - 1, c, SpeciesAt(s, c), SpeciesAt(s, c)>> \in Range(builder.indexes)
    /\ \E s \in 1 .. Len(systems) : \E c \in AtomsOf(s) :
          \E p, q \in Touching(s, c) :
             p /= q /\ SpeciesAt(s, Far(p, c)) = SpeciesAt(s, Far(q, c))

----------------------------------------------------------------------------
\* the gradient rows (s, c, a_c, a_n, k, d) of the requested rows: one
\* neighbor k for every pair that contains c and whose other end has the
\* species a_n
NeighborRows(requested) ==
    UNION {UNION {{<<sample[1], sample[2], sample[3], sample[4], Far(p, sample[2]), d>> :
                        d \in 0 .. 2} :
                    p \in {q \in Touching(sample[1] + 1, sample[2]) :
                            SpeciesAt(sample[1] + 1, Far(q, sample[2])) = sample[4]}} :
            sample \in Range(requested)}

\* the self-gradient rows (s, c, a_c, a_n, c, d) of the requested rows that
\* have a neighbor
SelfRows(requested) ==
    UNION {{<<sample[1], sample[2], sample[3], sample[4], sample[2], d>> : d \in 0 .. 2} :
            sample \in {r \in Range(requested) :
                \E q \in Touching(r[1] + 1, r[2]) :
                    SpeciesAt(r[1] + 1, Far(q, r[2])) = r[4]}}

\* C16: AtomSpeciesSamples.gradients_for gives, for each requested row
\* (s, c, a_c, a_n) in the order of the caller and each pair containing c
\* whose other end k has the species a_n, the rows (s, c, a_c, a_n, k, d),
\* d = 0, 1, 2, consecutively, and also the self-gradient rows with k = c
\* when a pair touches c; the rows follow the order of the request.
C16_AtomGradientsWithSelf ==
    GradientsBuilt("AtomSpeciesSamples") =>
        /\ NeighborRows(builder.requested) \subseteq Range(builder.gradients)
        /\ SelfRows(builder.requested) \subseteq Range(builder.gradients)
        /\ ThreeByThree(builder.gradients)
        /\ FollowsRequest(builder.gradients, builder.requested, 4)

\* C16, amended: AtomSpeciesSamples.gradients_for gives exactly, for each
\* requested row (s, c, a_c, a_n) in the order of the caller and each
\* neighbor k of c of species a_n, the rows (s, c, a_c, a_n, k, d),
\* d = 0, 1, 2, consecutively and once; there is no self-gradient row
\* (k = c); the rows follow the order of the request, not sorted order.
C16_AtomGradients ==
    GradientsBuilt("AtomSpeciesSamples") =>
        /\ Range(builder.gradients) = NeighborRows(builder.requested)
        /\ DuplicateFree(builder.gradients)
        /\ ThreeByThree(builder.gradients)
        /\ FollowsRequest(builder.gradients, builder.requested, 4)
        /\ \A n \in 1 .. Len(builder.gradients) :
              builder.gradients[n][5] /= builder.gradients[n][2]

\* a request of two rows in descending order, both with gradient rows,
\* which come out in the order of the request
C16_Witness ==
    /\ GradientsBuilt("AtomSpeciesSamples")
    /\ Len(builder.requested) = 2
    /\ LexLess(builder.requested[2], builder.requested[1])
    /\ Len(builder.gradients) >= 6
    /\ SubSeq(builder.gradients[1], 1, 4) = builder.requested[1]
    /\ SubSeq(builder.gradients[Len(builder.gradients)], 1, 4) = builder.requested[2]

----------------------------------------------------------------------------
\* C17: StructureSpeciesSamples.indexes gives one row (s, a) per system s
\* and distinct species a of s, ordered by s then ascending a;
\* gradients_for gives, for each requested row (s, a) in the order of the
\* caller and each atom i of s with species a, in ascending i, the rows
\* (s, a, i, 0), (s, a, i, 1), (s, a, i, 2), and nothing for the atoms of
\* another species.
C17_StructureSamples ==
    /\ IndexesBuilt("StructureSpeciesSamples") =>
        /\ Range(builder.indexes) =
              UNION {{<<s - 1, SpeciesAt(s, c)>> : c \in AtomsOf(s)} :
                        s \in 1 .. Len(systems)}
        /\ DuplicateFree(builder.indexes)
        /\ StrictlyAscending(builder.indexes)
    /\ GradientsBuilt("StructureSpeciesSamples") =>
        /\ Range(builder.gradients) =
              UNION {{<<sample[1], sample[2], i, d>> :
                        i \in {c \in AtomsOf(sample[1] + 1) :
                                    SpeciesAt(sample[1] + 1, c) = sample[2]},
                        d \in 0 .. 2} : sample \in Range(builder.requested)}
        /\ DuplicateFree(builder.gradients)
        /\ ThreeByThree(builder.gradients)
        /\ FollowsRequest(builder.gradients, builder.requested, 2)
        /\ \A x, y \in 1 .. Len(builder.gradients) :
              (x < y /\ SubSeq(builder.gradients[x], 1, 2)
                            = SubSeq(builder.gradients[y], 1, 2)) =>
                    builder.gradients[x][3] <= builder.gradients[y][3]

\* a request of two rows in descending order, the first one for the two
\* hydrogen atoms of a water molecule that is the second system
C17_Witness ==
    /\ GradientsBuilt("StructureSpeciesSamples")
    /\ Len(systems) = 2
    /\ Len(builder.requested) = 2
    /\ builder.requested[1] = <<1, 1>>
    /\ LexLess(builder.requested[2], builder.requested[1])
    /\ Len(builder.gradients) = 9
    /\ builder.gradients[4] = <<1, 1, 2, 0>>

\* C18: ThreeBodiesSpeciesSamples.indexes returns exactly the rows
\* (s, c, species[c], min(a_i, a_j), max(a_i, a_j)) for every center c and
\* every two pairs, equal or not, that contain c, i and j being their other
\* ends; with self_contribution, also (s, c, a_c, a_c, a_c) for every atom
\* and (s, c, a_c, min(a_c, a_n), max(a_c, a_n)) for every neighbor n of c.
\* Every row has species_neighbor_1 <= species_neighbor_2; the rows are
\* duplicate-free and in ascending order of the whole tuple.
C18_ThreeBodiesIndexes ==
    IndexesBuilt("ThreeBodiesSpeciesSamples") =>
        /\ Range(builder.indexes) =
              UNION {UNION {
                    {<<s - 1, c, SpeciesAt(s, c),
                       Smaller(SpeciesAt(s, Far(p, c)), SpeciesAt(s, Far(q, c))),
                       Larger(SpeciesAt(s, Far(p, c)), SpeciesAt(s, Far(q, c)))>> :
                            p \in Touching(s, c), q \in Touching(s, c)}
                    \cup (IF builder.self_contribution
                          THEN {<<s - 1, c, SpeciesAt(s, c), SpeciesAt(s, c),
                                  SpeciesAt(s, c)>>}
                               \cup {<<s - 1, c, SpeciesAt(s, c),
                                       Smaller(SpeciesAt(s, c), SpeciesAt(s, Far(p, c))),
                                       Larger(SpeciesAt(s, c), SpeciesAt(s, Far(p, c)))>> :
                                            p \in Touching(s, c)}
                          ELSE {}) :
                    c \in AtomsOf(s)} : s \in 1 .. Len(systems)}
        /\ \A n \in 1 .. Len(builder.indexes) :
              builder.indexes[n][4] <= builder.indexes[n][5]
        /\ DuplicateFree(builder.indexes)
        /\ StrictlyAscending(builder.indexes)

\* water with the two O-H pairs and self contribution: the oxygen has the
\* rows H-O-H, H-O-O and O-O-O, a hydrogen the rows H-H-H, H-H-O and O-H-O
C18_Witness ==
    /\ IndexesBuilt("ThreeBodiesSpeciesSamples")
    /\ builder.self_contribution
    /\ systems[1].species = <<123456, 1, 1>>
    /\ Len(systems[1].pairs) = 2
    /\ {<<0, 0, 123456, 1, 1>>, <<0, 0, 123456, 1, 123456>>,
         <<0, 0, 123456, 123456, 123456>>, <<0, 1, 1, 1, 1>>,
         <<0, 1, 1, 1, 123456>>, <<0, 1, 1, 123456, 123456>>}
            \subseteq Range(builder.indexes)

----------------------------------------------------------------------------
(* Vocabulary of the properties of the descriptor *)

\* the step is a densify that returned
DensifyReturned ==
    /\ descriptor.panicked = "none"
    /\ descriptor'.panicked = "none"
    /\ descriptor'.stage = "densified"
    /\ Len(descriptor'.environments.names) < Len(descriptor.environments.names)

\* the variable a densify step moved to the features (1-based column)
MovedColumn ==
    CHOOSE c \in 1 .. Len(descriptor.environments.names) :
        descriptor.environments.names[c] \notin Range(descriptor'.environments.names)

\* the distinct values of a sequence, in first-occurrence order
Distinct(s) == IndexSet_from(s)

\* the rows without the moved column, and the values of the moved column
Remainders ==
    [r \in 1 .. Len(descriptor.environments.rows) |->
        Cleaned(descriptor.environments.rows[r], MovedColumn)]

MovedValues ==
    [r \in 1 .. Len(descriptor.environments.rows) |->
        descriptor.environments.rows[r][MovedColumn]]

\* the result of a densify step, as it should be: environments, features
\* and shape, every old row in its place, zero elsewhere
DensifiedAsExpected ==
    LET F == Len(descriptor.features.rows)
        environments == Distinct(Remainders)
        blocks == Distinct(MovedValues)
        new == descriptor'.values
        PlaceOf(r) == <<iter_position(environments, Remainders[r]),
                        iter_position(blocks, MovedValues[r])>>
    IN /\ descriptor'.environments.rows = environments
       /\ descriptor'.features.rows =
            ConcatAll([b \in 1 .. Len(blocks) |->
                [f \in 1 .. F |-> <<blocks[b]>> \o descriptor.features.rows[f]]])
       /\ new.shape = <<Len(environments), Len(blocks) * F>>
       /\ Len(new.data) = Len(environments) * Len(blocks) * F
       /\ \A r \in 1 .. Len(Remainders) : \A f \in 0 .. (F - 1) :
             At(new, PlaceOf(r)[1], PlaceOf(r)[2] * F + f)
                = At(descriptor.values, r - 1, f)
       /\ \A e \in 0 .. (Len(environments) - 1) :
             \A c \in 0 .. (Len(blocks) * F - 1) :
                (\A r \in 1 .. Len(Remainders) :
                    PlaceOf(r) /= <<e, c \div F>>)
                => At(new, e, c) = 0

\* the rows of the same remainder follow each other in the environments
Grouped ==
    \A i, j, k \in 1 .. Len(Remainders) :
        i < j /\ j < k /\ Remainders[i] = Remainders[k]
            => Remainders[j] = Remainders[i]

\* densify is right when the rows of the same remainder follow each other
DensifyOfGrouped ==
    [][DensifyReturned /\ Grouped => DensifiedAsExpected]_vars

Array2_AllZero(array) == \A i \in 1 .. Len(array.data) : array.data[i] = 0

\* the arrays of a prepared descriptor have the shape of its indexes
PreparedShape ==
    descriptor.stage = "prepared" /\ descriptor.panicked = "none" =>
        /\ descriptor.values.shape = <<Len(descriptor.environments.rows),
                                       Len(descriptor.features.rows)>>
        /\ Len(descriptor.values.data)
              = Len(descriptor.environments.rows) * Len(descriptor.features.rows)
        /\ descriptor.gradients.some = descriptor.gradients_indexes.some
        /\ descriptor.gradients.some =>
              /\ descriptor.gradients.shape
                    = <<Len(descriptor.gradients_indexes.indexes.rows),
                        Len(descriptor.features.rows)>>
              /\ Len(descriptor.gradients.data)
                    = Len(descriptor.gradients_indexes.indexes.rows)
                        * Len(descriptor.features.rows)

\* C19: densify is correct for duplicate-free environments in any row
\* order: after densify(variable) the environments are the distinct rows
\* without the variable in first-occurrence order, the feature blocks the
\* distinct values of the variable in first-occurrence order, every old row
\* is found in the block of its value in the row of its remainder, no old
\* row is lost or overwritten, and every other entry is zero.
C19_Densify ==
    [][DensifyReturned => DensifiedAsExpected]_vars

\* C20: after prepare and prepare_gradients the arrays have the shape of
\* the indexes and every entry is zero, whatever the descriptor held
\* before; after prepare there are no gradients and no gradient indexes.
C20_PreparedZero ==
    descriptor.stage = "prepared" /\ descriptor.panicked = "none" =>
        /\ PreparedShape
        /\ Array2_AllZero(descriptor.values)
        /\ descriptor.gradients.some => Array2_AllZero(descriptor.gradients)
----------------------------------------------------------------------------
----------------------------------------------------------------------------
----------------------------------------------------------------------------
\* C23: keys() and samples() assert cutoff > 0 and finite before anything
\* else: with a cutoff that is zero, negative, NaN or infinite the call
\* aborts and compute_neighbors is not called on any system, so the
\* neighbor list of no system is changed.
C23_AssertFirst ==
    [][(KeysOrSamplesCalled /\ InvalidCutoff) =>
            /\ pc' = "Aborted"
            /\ panic' = "assertion failed"
            /\ systems' = systems]_vars

\* samples() aborted for an infinite cutoff, and the neighbor lists of the
\* systems are still the ones keys() computed for the cutoff 2
C23_Witness ==
    /\ pc = "Aborted"
    /\ panic = "assertion failed"
    /\ cutoff = Infinity
    /\ Len(keys) > 0
    /\ Len(systems) > 0
    /\ \A s \in 1 .. Len(systems) : systems[s].neighbors = Finite(2)
----------------------------------------------------------------------------
\* the entries <<key, sample row, value>> of a descriptor for the pair p
EntriesOf(desc, p) ==
    {e \in Entries(desc) : e[2][1] = p[1] - 1 /\ e[2][2] = p[2] - 1}

\* C24: the half and the full list treat a self pair (first = second) the
\* same way: none drops it; in both it gives the key (a, a), exactly one
\* sample row (s, k, i, i), in the block (a, a), and one value row equal to
\* the vector of the pair.
C24_SelfPairs ==
    \A p \in Reported :
        PairAt(p).first = PairAt(p).second =>
            LET a == FirstSpecies(p)
            IN /\ KeysReturned => <<a, a>> \in Range(keys)
               /\ SamplesReturned =>
                     /\ Cardinality(RowsOf(p)) = 1
                     /\ RowsOf(p) = Places(<<a, a>>, ForwardRow(p))
               /\ pc = "Filled" =>
                     /\ EntriesOf(Descriptor, p)
                            = {<<<<a, a>>, ForwardRow(p), PairAt(p).vector>>}
                     /\ EntriesOf(NeighborList_run(~full_neighbor_list, systems), p)
                            = EntriesOf(Descriptor, p)

\* a half list filled for a self pair and a pair of two atoms
C24_Witness ==
    /\ pc = "Filled"
    /\ ~full_neighbor_list
    /\ \E p, q \in Reported :
          /\ PairAt(p).first = PairAt(p).second
          /\ PairAt(q).first /= PairAt(q).second
          /\ \E br \in RowsOf(p) : values[br[1]][br[2]] = PairAt(p).vector
----------------------------------------------------------------------------
\* no array entry was assigned twice by compute
WrittenOnce ==
    \A i, j \in 1 .. Len(written) : i /= j => written[i] /= written[j]

\* the positions of the gradient rows of the sample at row n of block b
GradientRowsOf(b, n) ==
    {g \in 1 .. Len(gradient.samples[b]) : gradient.samples[b][g][1] = n - 1}

\* C25: in a block of the full list whose two species are equal, the two
\* orientations (i -> j) and (j -> i) of a pair write to gradient rows of
\* their own, told apart by the "sample" column: over a compute with
\* i /= j, no values entry and no gradient entry is written more than once.
C25_IndependentWrites ==
    (pc = "Filled" /\ full_neighbor_list
        /\ \A p \in Reported : PairAt(p).first /= PairAt(p).second) =>
        /\ WrittenOnce
        /\ \A p \in Reported :
              FirstSpecies(p) = SecondSpecies(p) =>
                 \A f \in Places(<<FirstSpecies(p), SecondSpecies(p)>>, ForwardRow(p)) :
                    \A g \in Places(<<FirstSpecies(p), SecondSpecies(p)>>, BackwardRow(p)) :
                       /\ f[1] = g[1]
                       /\ f[2] /= g[2]
                       /\ <<"values", f[1], f[2]>> \in Range(written)
                       /\ <<"values", g[1], g[2]>> \in Range(written)
                       /\ gradient.present =>
                             /\ GradientRowsOf(f[1], f[2]) \cap GradientRowsOf(g[1], g[2]) = {}
                             /\ \A r \in GradientRowsOf(f[1], f[2]) \cup GradientRowsOf(g[1], g[2]) :
                                   <<"gradient", f[1], r>> \in Range(written)

\* a full list with gradients filled for a pair of two atoms of the same
\* species: two values rows and four gradient rows were written
C25_Witness ==
    /\ pc = "Filled"
    /\ full_neighbor_list
    /\ gradient.present
    /\ Cardinality(Reported) = 1
    /\ \E p \in Reported :
          /\ PairAt(p).first /= PairAt(p).second
          /\ FirstSpecies(p) = SecondSpecies(p)
    /\ Len(written) = 6
----------------------------------------------------------------------------
\* C26: when no system has a pair within the cutoff, keys(), samples() and
\* compute() all succeed: no call aborts or fails, every block of the
\* result has a sample axis of length zero and no value is written.
C26_NoPairs ==
    (Reported = {} /\ CutoffAssert(cutoff)) =>
        /\ pc \notin {"Aborted", "Failed"}
        /\ panic = "none"
        /\ error = "none"
        /\ \A b \in 1 .. Len(samples) : Len(samples[b]) = 0
        /\ pc = "Filled" =>
              /\ Len(samples) = Len(keys)
              /\ Len(values) = Len(keys)
              /\ \A b \in 1 .. Len(values) : Len(values[b]) = 0
              /\ written = <<>>

\* compute returned for two systems without any pair
C26_Witness ==
    /\ pc = "Filled"
    /\ Len(systems) = 2
    /\ Reported = {}
    /\ panic = "none"
----------------------------------------------------------------------------
\* the number of times compute assigned an entry
TimesWritten(entry) ==
    Cardinality({i \in 1 .. Len(written) : written[i] = entry})

\* C27: completeness of compute: with the keys, samples and gradient
\* samples built from the same systems and cutoff and unchanged pair lists,
\* compute (half and full) writes every sample row of every block exactly
\* once and never reaches expect("missing gradient sample"); no sample row
\* is left unfilled.
C27_ComputeComplete ==
    /\ panic /= "missing gradient sample"
    /\ pc = "Filled" =>
          /\ \A br \in AllRows :
                /\ TimesWritten(<<"values", br[1], br[2]>>) = 1
                /\ values[br[1]][br[2]] /= <<0, 0, 0>>
          /\ \A i \in 1 .. Len(written) :
                written[i][1] = "values" => <<written[i][2], written[i][3]>> \in AllRows

\* a half list with gradients filled for two pairs
C27_Witness ==
    /\ pc = "Filled"
    /\ ~full_neighbor_list
    /\ gradient.present
    /\ Cardinality(AllRows) = 2
    /\ Len(written) = 6
----------------------------------------------------------------------------
\* C28: the sample rows of a block are duplicate-free for every pair list,
\* several pairs between the same two atoms and self pairs included: in
\* both half and full samples() no row is added twice to a block, rows of
\* different pairs differ in (structure, pair_id) and the two orientations
\* of one pair differ in the atom columns.
C28_NoDuplicateRows ==
    /\ panic /= "duplicate sample row"
    /\ SamplesReturned =>
          \A b \in 1 .. Len(samples) :
              \A m, n \in 1 .. Len(samples[b]) :
                  m /= n =>
                      LET one == samples[b][m]
                          other == samples[b][n]
                      IN /\ one /= other
                         /\ <<one[1], one[2]>> = <<other[1], other[2]>> =>
                                /\ <<one[3], one[4]>> /= <<other[3], other[4]>>
                                /\ <<one[3], one[4]>> = <<other[4], other[3]>>

\* the full list built the four rows of two pairs between the same two
\* atoms of one species
C28_Witness ==
    /\ pc = "SamplesBuilt"
    /\ full_neighbor_list
    /\ \E p, q \in Reported :
          /\ p /= q
          /\ p[1] = q[1]
          /\ PairAt(p).first = PairAt(q).first
          /\ PairAt(p).second = PairAt(q).second
          /\ PairAt(p).first /= PairAt(p).second
          /\ FirstSpecies(p) = SecondSpecies(p)
          /\ Cardinality(RowsOf(p) \cup RowsOf(q)) = 4
----------------------------------------------------------------------------
\* the first five columns of a gradient row of ThreeBodiesSpeciesSamples
ThreeBodiesSampleOf(row) == SubSeq(row, 1, 5)

ThreeBodiesGradientsReturned ==
    builder.kind = "ThreeBodiesSpeciesSamples" /\ builder.stage = "gradients"

\* C29: ThreeBodiesSpeciesSamples.gradients_for(samples) returns gradient
\* rows only for the requested samples: the first five columns of every
\* returned row form a row of the samples passed in, also for a strict
\* subset of the rows of indexes().
C29_RequestedOnly ==
    ThreeBodiesGradientsReturned =>
        \A n \in 1 .. Len(builder.gradients) :
            ThreeBodiesSampleOf(builder.gradients[n]) \in Range(builder.requested)

\* what the code does give: every returned row belongs to the center of a
\* requested row
ThreeBodiesGradientsOfRequestedCenters ==
    ThreeBodiesGradientsReturned =>
        \A n \in 1 .. Len(builder.gradients) :
            \E r \in 1 .. Len(builder.requested) :
                SubSeq(builder.gradients[n], 1, 3) = SubSeq(builder.requested[r], 1, 3)
----------------------------------------------------------------------------
\* the values of the moved variable in the gradient indexes
MovedGradientValues ==
    [r \in 1 .. Len(descriptor.gradients_indexes.indexes.rows) |->
        descriptor.gradients_indexes.indexes.rows[r][MovedColumn]]

\* the step is a densify of a descriptor with gradient indexes that returned
DensifyWithGradientsReturned ==
    DensifyReturned /\ descriptor.gradients_indexes.some

\* every entry of the new gradients that holds data of an old gradient row
\* is in a column whose feature is labelled with the value of that row (the
\* entries of a filled array are its positions, counted from one)
GradientBlocksAsLabelled ==
    LET F == Len(descriptor.features.rows)
        new == descriptor'.gradients
    IN \A r \in 0 .. (new.shape[1] - 1) : \A c \in 0 .. (new.shape[2] - 1) :
          At(new, r, c) /= 0 =>
              MovedGradientValues[(At(new, r, c) - 1) \div F + 1]
                  = descriptor'.features.rows[c + 1][1]

\* C30: after densify(variable) on a descriptor with gradients, the column
\* block that holds the data of a value of the variable in the gradients is
\* the block labelled with that value in the new features, also when the
\* values first occur in another order in the gradient indexes than in the
\* environments; densify does not return when the two sets of values
\* differ.
C30_SameLayout ==
    [][DensifyWithGradientsReturned =>
          /\ Range(MovedGradientValues) = Range(MovedValues)
          /\ (descriptor.stage = "filled" /\ descriptor.gradients.some)
                => GradientBlocksAsLabelled]_vars

\* the layouts agree when the values first occur in the same order in the
\* gradient indexes and in the environments
DensifyOfSameOrder ==
    [][(/\ DensifyWithGradientsReturned
        /\ descriptor.stage = "filled" /\ descriptor.gradients.some
        /\ Distinct(MovedGradientValues) = Distinct(MovedValues))
            => GradientBlocksAsLabelled]_vars

\* densify never returns when the two sets of values differ
DensifyOfDifferentValues ==
    [][DensifyWithGradientsReturned
          => Range(MovedGradientValues) = Range(MovedValues)]_vars
============================================================================
